---- MODULE Spec2Model ----
(***************************************************************************)
(* A model of the proxy membrane of node-runspace (src/proxy.js, lines     *)
(* 1-422) together with the part of Runspace (src/runspace.js) that        *)
(* observes its termination.  The host object graph is a small fixed heap; *)
(* the membrane state is the two identity maps, the proxies created so     *)
(* far, the terminated flag and the notifications emitted.                 *)
(***************************************************************************)
EXTENDS Integers, Sequences, FiniteSets, TLC

(***************************************************************************)
(* Bounds of the model.                                                    *)
(***************************************************************************)
MaxProxies == 8
MaxTerminate == 2
MaxHeld == 1
MaxList == 2
MaxFns == 2
MaxRuns == 2
MaxSegs == 3
MaxRequires == 3

NULL == "null"
PRIM == "prim"

(***************************************************************************)
(* The host heap.  Object and ObjectP stand for Object and                 *)
(* Object.prototype.  Animal is a constructor; AnimalP is its canonical    *)
(* prototype.  DogP is the prototype of the instances d1 and d2: it        *)
(* delegates to AnimalP and has no own constructor slot (the               *)
(* "Dog.prototype = new Animal()" shape), so DogP.constructor is Animal.   *)
(* Dog is the constructor whose prototype slot is DogP.  obj is a plain    *)
(* object that refers to itself (obj.self) and to d2 (obj.pet).  Array and *)
(* ArrayP stand for Array and Array.prototype; arr is an array.  run,      *)
(* speak and fixed are ordinary (lower-case) functions.                    *)
(* n1 is an object not allocated yet, created by a guest "new".            *)
(* Node is a constructor that refers to itself from a static member        *)
(* (Node.Root) and from a member of its prototype NodeP (NodeP.Owner); nd  *)
(* is an instance of it.  bad is a plain object with a member Kind that    *)
(* holds the denylisted constructor Array.                                 *)
(***************************************************************************)
Functions == {"Object", "Array", "Animal", "Dog", "Node", "run", "speak", "fixed"}
Spares == {"n1"}
Objects == {"ObjectP", "ArrayP", "arr", "AnimalP", "DogP", "d1", "d2", "obj", "NodeP", "nd",
            "bad"} \cup Spares
Hosts == Functions \cup Objects

\* a guest function, passed as a callback argument
GuestFn == "gcb"

\* the host functions that keep a callback they are given and invoke it later
KeepsCallback == {"run", "speak"}

\* what each host function returns
Returns(f) ==
    CASE f = "speak" -> "d2"
      [] f = "fixed" -> "obj"
      [] OTHER -> PRIM

\* the value a call interceptor returns when it returns one
HookResult == "d2"

\* the arguments the host passes to a callback it kept
FireArgs == {"d1", PRIM}

DONT_PROXY == {"Object", "Array"}

\* prop.charAt(0).toLowerCase() !== prop.charAt(0)
Capitalized == {"Object", "Array", "Animal", "Dog", "Node", "Kind", "Root", "Owner"}

TypeOf(v) ==
    IF v \in Functions \/ v = GuestFn THEN "function"
    ELSE IF v \in Objects THEN "object"
    ELSE "primitive"

\* the own constructor slot of an object; NULL when it has none
OwnConstructor(h) ==
    CASE h = "ObjectP" -> "Object"
      [] h = "ArrayP" -> "Array"
      [] h = "AnimalP" -> "Animal"
      [] h = "NodeP" -> "Node"
      [] OTHER -> NULL

\* the prototype slot of a function
PrototypeSlot(f) ==
    CASE f = "Object" -> "ObjectP"
      [] f = "Array" -> "ArrayP"
      [] f = "Animal" -> "AnimalP"
      [] f = "Dog" -> "DogP"
      [] f = "Node" -> "NodeP"
      [] OTHER -> NULL

\* Object.getPrototypeOf on the statically allocated objects
StaticProto(h) ==
    CASE h = "ObjectP" -> NULL
      [] h = "ArrayP" -> "ObjectP"
      [] h = "arr" -> "ArrayP"
      [] h = "AnimalP" -> "ObjectP"
      [] h = "DogP" -> "AnimalP"
      [] h \in {"d1", "d2"} -> "DogP"
      [] h = "obj" -> "ObjectP"
      [] h = "NodeP" -> "ObjectP"
      [] h = "nd" -> "NodeP"
      [] h = "bad" -> "ObjectP"
      [] OTHER -> NULL

(***************************************************************************)
(* Own properties, in Object.getOwnPropertyNames order.  kind is "data" or *)
(* "accessor"; val is the live value: PRIM or a host object.               *)
(***************************************************************************)
Prop(n, k, w, v) == [name |-> n, kind |-> k, writable |-> w, val |-> v]

OwnProps(h) ==
    CASE h = "obj" -> << Prop("x", "data", TRUE, PRIM),
                         Prop("secret", "accessor", FALSE, PRIM),
                         Prop("run", "data", TRUE, "run"),
                         Prop("ro", "data", FALSE, PRIM),
                         Prop("fixed", "data", FALSE, "fixed"),
                         Prop("Kind", "data", TRUE, "Animal"),
                         Prop("self", "data", TRUE, "obj"),
                         Prop("pet", "data", TRUE, "d2") >>
      [] h = "AnimalP" -> << Prop("speak", "data", TRUE, "speak") >>
      [] h = "DogP" -> << Prop("count", "data", TRUE, "0") >>
      [] h = "Node" -> << Prop("Root", "data", TRUE, "Node") >>
      [] h = "NodeP" -> << Prop("Owner", "data", TRUE, "Node") >>
      [] h = "bad" -> << Prop("Kind", "data", TRUE, "Array"), Prop("x", "data", TRUE, PRIM) >>
      [] OTHER -> << >>

PropNames == {"x", "secret", "run", "ro", "fixed", "Kind", "self", "pet", "speak", "count",
              "Root", "Owner"}

HasOwn(h, n) == \E i \in 1..Len(OwnProps(h)) : OwnProps(h)[i].name = n

OwnProp(h, n) ==
    LET i == CHOOSE j \in 1..Len(OwnProps(h)) : OwnProps(h)[j].name = n
    IN OwnProps(h)[i]

(***************************************************************************)
(* Options of one add/proxy/weakProxy call.  Every wrapper created during  *)
(* the call closes over them.  A qualified member name is the pair of the  *)
(* namespace ("" , "Ctor." or "Ctor#", kept as a tuple) and the property.  *)
(***************************************************************************)
NoNs == << >>
StaticNs(c) == << c, "." >>
InstNs(c) == << c, "#" >>
QName(ns, n) == << ns, n >>

\* allow and deny are arrays (sequences) of qualified names; hasAllow and hasDeny
\* tell whether each was supplied; hooks tells whether the get/set/call/new
\* interceptors are supplied
Options(hasAllow, allow, hasDeny, deny, hooks, ft) ==
    [hasAllow |-> hasAllow, allow |-> allow, hasDeny |-> hasDeny, deny |-> deny,
     hooks |-> hooks, functionType |-> ft]

NoOptions == Options(FALSE, << >>, FALSE, << >>, FALSE, "auto")

DenyOptions ==
    Options(FALSE, << >>,
            TRUE, << QName(NoNs, "secret"), QName(NoNs, "run"), QName(NoNs, "x"),
                     QName(NoNs, "Kind"), QName(InstNs("Animal"), "speak") >>,
            TRUE, "auto")

AllowOptions == Options(TRUE, << QName(NoNs, "x") >>, FALSE, << >>, TRUE, "auto")

\* the options the host supplies when it registers each target
OptionsFor(target) ==
    IF target = "obj" THEN {DenyOptions, AllowOptions} ELSE {NoOptions}

VARIABLES
    permMap,      \* host._permMap: host object -> proxy id, NoId when absent
    tempMaps,     \* every WeakMap instance made so far; the last is host._tempMap
    px,           \* the proxies and wrappers created so far, by id
    terminated,   \* host.terminated
    emitted,      \* number of 'terminate' events emitted
    onceArmed,    \* Runspace's once('terminate') cleanup handler is still registered
    cleanups,     \* number of runs of that cleanup handler
    heapProto,    \* prototype of each object created by a guest "new" (NULL: not created)
    held,         \* callback trampolines the host keeps for later invocation
    last,         \* the last operation and what it did
    policy,       \* inputs and result of an access-policy decision
    slots,        \* own value of the property count of DogP, d1 and d2 (NULL: no own property)
    hook,         \* inputs and result of one interceptor consultation
    internalAccess,  \* the module-level flag that opens the __proxyTarget__ getters
    unwrapping,   \* progress of one unwrapObject call on a value supplied by guest code
    bound,        \* the listeners attached to the shared host emitter, per event, in order
    managers,     \* per sandbox: the record its EventManager has for that emitter, if any
    strong,       \* per sandbox: the emitter's proxy is registered in the strong map
    answer,       \* what the last listeners / listenerCount call answered
    nextFn,       \* number of listener functions created so far
    exits,        \* the 'exit' listeners of the runspace's private process emitter, in order
    forward,      \* forwardExit is attached to the real process 'exit' event
    runs,         \* how often each listener function was invoked
    fsCall,       \* inputs and result of one call of an fs function through its proxy
    lookupPaths,  \* the module-level table of module lookup paths, per directory
    pathCache,    \* per sandbox: loader.pathCache, resolved file per directory and specifier
    moduleCache,  \* per sandbox: loader.Module.cache, the files loaded and their instances
    required,     \* what the last require call did
    bodies,       \* what the body of each module file does when it runs
    requireFS,    \* the module-level requireFS of the loader is set (not null)
    steps,        \* what happened inside the last require call, in order
    failed,       \* per sandbox: the files whose load has failed at least once
    made,         \* number of loader.Module instances made so far
    timerCallbacks,  \* the tracking lists of the timers interceptor, per kind
    handles       \* every timer handle made so far: its kind and what became of it

vars == << permMap, tempMaps, px, terminated, emitted, onceArmed, cleanups,
           heapProto, held, last, policy, slots, hook, internalAccess, unwrapping,
           bound, managers, strong, answer, nextFn, exits, forward, runs,
           fsCall, lookupPaths, pathCache, moduleCache, required,
           bodies, requireFS, steps, failed, made, timerCallbacks, handles >>

\* the variables of the internal-access gate
gateVars == << internalAccess, unwrapping >>

\* the variables of the listener bookkeeping
eventVars == << bound, managers, strong, answer, nextFn, exits, forward, runs >>

\* the variables of module loading
moduleVars == << bodies, requireFS, steps, failed, made >>

\* the variables of the timers interceptor
timerVars == << timerCallbacks, handles >>

\* the variables of the module loader, of the fs interceptor and of the
\* timers interceptor
envVars == << fsCall, lookupPaths, pathCache, moduleCache, required, moduleVars, timerVars >>

\* the variables of the membrane proper
proxyVars == << permMap, tempMaps, px, terminated, emitted, onceArmed, cleanups,
                heapProto, held, last, policy, slots, hook, internalAccess, unwrapping >>

\* A proxy or wrapper is named by its target and its rank among the proxies
\* created for that target; NoId stands for undefined.
NoId == << NULL, 0 >>

\* a value that crosses the membrane as it is (rank 0: not a proxy)
Raw(v) == << v, 0 >>

EmptyMap == [h \in Hosts |-> NoId]
NoVals == [n \in PropNames |-> NoId]

ProtoOf(h) == IF h \in Spares THEN heapProto[h] ELSE StaticProto(h)

RECURSIVE ConstructorOf(_)
\* obj.constructor, looked up along the prototype chain
ConstructorOf(h) ==
    IF h \notin Objects THEN NULL
    ELSE IF OwnConstructor(h) # NULL THEN OwnConstructor(h)
    ELSE IF ProtoOf(h) = NULL THEN NULL
    ELSE ConstructorOf(ProtoOf(h))

RECURSIVE InChain(_, _)
\* p is h or an ancestor of h
InChain(h, p) ==
    IF h = NULL THEN FALSE
    ELSE IF h = p THEN TRUE
    ELSE InChain(ProtoOf(h), p)

\* obj instanceof ctor
InstanceOf(h, c) ==
    /\ h \in Objects
    /\ PrototypeSlot(c) # NULL
    /\ InChain(ProtoOf(h), PrototypeSlot(c))

(***************************************************************************)
(* The membrane state threaded through one synchronous operation.          *)
(***************************************************************************)
State == [perm |-> permMap, temps |-> tempMaps, px |-> px, err |-> "none"]

CurGen(s) == Len(s.temps)

NewPx(kind, target, proto, ns, name, opts, dir) ==
    [kind |-> kind, target |-> target, proto |-> proto, prototype |-> NoId, ctor |-> NoId,
     ns |-> ns, name |-> name, opts |-> opts, dir |-> dir,
     map |-> "none", gen |-> 0, vals |-> NoVals, shadow |-> {}]

\* the identity of the next proxy created for target
NextId(s, target) ==
    << target, 1 + Cardinality({i \in DOMAIN s.px : i[1] = target}) >>

Alloc(s, rec) == [s EXCEPT !.px = (NextId(s, rec.target) :> rec) @@ @]

\* a registration that always goes to the strong map
MapSetStrong(s, map, gen, key, id) ==
    IF key \notin Hosts THEN s ELSE [s EXCEPT !.perm[key] = id]

MapSet(s, map, gen, key, id) ==
    IF key \notin Hosts THEN s
    ELSE IF map = "perm" THEN [s EXCEPT !.perm[key] = id]
    ELSE [s EXCEPT !.temps[gen][key] = id]

\* a map in which nothing is ever found
MapGetNothing(s, map, gen, key) == NoId

MapGet(s, map, gen, key) ==
    IF key \notin Hosts THEN NoId
    ELSE IF map = "perm" THEN s.perm[key]
    ELSE s.temps[gen][key]

\* a lookup that consults the strong map only
GetProxyStrongOnly(s, o) ==
    IF o \notin Hosts THEN NoId ELSE s.perm[o]

\* Proxy.prototype.getProxy: permMap.get(obj) || tempMap.get(obj)
GetProxy(s, o) ==
    IF o \notin Hosts THEN NoId
    ELSE IF s.perm[o] # NoId THEN s.perm[o]
    ELSE s.temps[CurGen(s)][o]

\* Proxy.prototype.isWeaklyProxied: tempMap.has(obj)
IsWeaklyProxied(s, o) == o \in Hosts /\ s.temps[CurGen(s)][o] # NoId

(***************************************************************************)
(* createAssertion: the access-policy decision for a qualified name.       *)
(***************************************************************************)
RECURSIVE IndexFrom(_, _, _)
IndexFrom(arr, v, i) ==
    IF i > Len(arr) THEN -1
    ELSE IF arr[i] = v THEN i - 1
    ELSE IndexFrom(arr, v, i + 1)

\* Array.prototype.indexOf
IndexOf(arr, v) == IndexFrom(arr, v, 1)

\* a decision in which the allow list takes precedence over the deny list
DeniedUnlessAllowed(opts, qname) ==
    IF opts.hasAllow /\ IndexOf(opts.allow, qname) >= 0 THEN FALSE
    ELSE \/ (opts.hasDeny /\ IndexOf(opts.deny, qname) >= 0)
         \/ opts.hasAllow

Denied(opts, qname) ==
    \/ (opts.hasDeny /\ IndexOf(opts.deny, qname) >= 0)
    \/ (opts.hasAllow /\ IndexOf(opts.allow, qname) < 0)

(***************************************************************************)
(* The member shape defineProperty gives to an own property of a target.   *)
(***************************************************************************)
Shape(p) ==
    IF p.name \in Capitalized /\ TypeOf(p.val) = "function" THEN "ctor"
    ELSE IF p.kind = "accessor" THEN "accessor"
    ELSE IF p.writable THEN "dynamic"
    ELSE IF TypeOf(p.val) = "function" THEN "method"
    ELSE "getter"

Result(s, id) == [s |-> s, proxy |-> id]
Failed(s, e) == [s |-> [s EXCEPT !.err = e], proxy |-> NoId]

\* The one element of a singleton set.  Intermediate results below are bound
\* as the element of a singleton ({e : r \in {...}}) so that each is computed
\* once.
Only(S) == CHOOSE y \in S : TRUE

RECURSIVE CreateObject(_, _, _, _, _)
RECURSIVE CreateCtorFunction(_, _, _, _)
RECURSIVE DefineProperties(_, _, _, _, _, _)
RECURSIVE DefineFrom(_, _, _, _, _, _)

(***************************************************************************)
(* The constructor proxy called internally with an existing host instance  *)
(* (new CtorProxy(target, map)): it checks termination, then materializes  *)
(* the members of target on the new receiver, whose prototype is           *)
(* CtorProxy.prototype, under the options the constructor proxy closed     *)
(* over.                                                                   *)
(***************************************************************************)
CtorInternal(s0, C, target, map) ==
    IF terminated THEN Failed(s0, "Terminated")
    ELSE Only({
        Only({ IF s2.err # "none" THEN Result(s2, NoId) ELSE Result(s2, NextId(s, target)) :
               s2 \in { DefineProperties(
                            Alloc(s, NewPx("object", target, s.px[C].prototype,
                                           InstNs(s.px[C].target), NoNs, s.px[C].opts, "none")),
                            NextId(s, target), target, map, InstNs(s.px[C].target),
                            s.px[C].opts) } }) :
        s \in {s0} })

(***************************************************************************)
(* defineProperties: register target -> proxy in the map (host._tempMap    *)
(* when none is given), then define each own property.                     *)
(***************************************************************************)
DefineProperties(s0, proxy, target, map, ns, opts) ==
    Only({
        DefineFrom([MapSet(s, IF map = NULL THEN "temp" ELSE map, CurGen(s), target, proxy)
                       EXCEPT !.px[proxy].map = IF map = NULL THEN "temp" ELSE map,
                              !.px[proxy].gen = CurGen(s)],
                   proxy, target, ns, opts, 1) :
        s \in {s0} })

(***************************************************************************)
(* defineProperty, for the i-th own property onwards.  Only two shapes     *)
(* act at materialization time: a capitalized function-valued member       *)
(* reuses or creates a constructor proxy, and a non-writable function      *)
(* member creates its call wrapper.  The other shapes install accessors    *)
(* whose behaviour is that of the Guest actions below.                     *)
(***************************************************************************)
DefineFrom(s0, proxy, target, ns, opts, i) ==
    Only({
        IF s.err # "none" \/ i > Len(OwnProps(target)) THEN s
        ELSE IF Shape(OwnProps(target)[i]) = "ctor" THEN
            Only({ DefineFrom([r.s EXCEPT !.px[proxy].vals[OwnProps(target)[i].name] = r.proxy],
                              proxy, target, ns, opts, i + 1) :
                   r \in { IF GetProxy(s, OwnProps(target)[i].val) # NoId
                           THEN Result(s, GetProxy(s, OwnProps(target)[i].val))
                           ELSE CreateCtorFunction(s, OwnProps(target)[i].val, NULL, opts) } })
        ELSE IF Shape(OwnProps(target)[i]) = "method" THEN
            DefineFrom([Alloc(s, NewPx("fn", OwnProps(target)[i].val, NoId, ns,
                                       QName(ns, OwnProps(target)[i].name), opts, "in"))
                           EXCEPT !.px[proxy].vals[OwnProps(target)[i].name] =
                                      NextId(s, OwnProps(target)[i].val)],
                       proxy, target, ns, opts, i + 1)
        ELSE DefineFrom(s, proxy, target, ns, opts, i + 1) :
        s \in {s0} })

(***************************************************************************)
(* createCtorFunction: the constructor proxy of ctor, its static members   *)
(* and its prototype, registered in map or, when none is given, in         *)
(* host._permMap.                                                          *)
(***************************************************************************)
CreateCtorFunction(s0, ctor, map, opts) ==
    IF ctor \in DONT_PROXY THEN Failed(s0, "TypeError")
    ELSE Only({
        Only({
            IF s2.err # "none" THEN Result(s2, NoId)
            ELSE Only({ IF r.s.err # "none" THEN Result(r.s, NoId)
                        ELSE Result([r.s EXCEPT !.px[NextId(s, ctor)].prototype = r.proxy,
                                                !.px[r.proxy].ctor = NextId(s, ctor)],
                                    NextId(s, ctor)) :
                        r \in { CreateObject(s2, PrototypeSlot(ctor),
                                             IF map = NULL THEN "perm" ELSE map,
                                             InstNs(ctor), opts) } }) :
            s2 \in { DefineProperties(
                         Alloc(s, NewPx("ctor", ctor, NoId, StaticNs(ctor), NoNs, opts, "none")),
                         NextId(s, ctor), ctor, IF map = NULL THEN "perm" ELSE map,
                         StaticNs(ctor), opts) } }) :
        s \in {s0} })

(***************************************************************************)
(* The proxy of the prototype of an object (createObject, first half).     *)
(* CtorProxy is the registered proxy of proto.constructor, created if      *)
(* absent.  A prototype that is not the canonical prototype of its         *)
(* constructor is materialized as an object of its own; one that is an     *)
(* instance of its constructor is materialized by the constructor proxy;   *)
(* otherwise CtorProxy.prototype is reused.  A prototype proxy of NoId     *)
(* means the proxy delegates to no proxy (a denylisted root, or the        *)
(* default prototype object of a constructor proxy still being built).     *)
(***************************************************************************)
MirrorProto(s0, proto, map, opts) ==
    IF proto = NULL \/ ConstructorOf(proto) \in DONT_PROXY \/ ConstructorOf(proto) = NULL
    THEN Result(s0, NoId)
    ELSE Only({
        IF r1.s.err # "none" THEN r1
        ELSE IF PrototypeSlot(ConstructorOf(proto)) # proto THEN
            Only({ IF r.s.err # "none" THEN r
                   ELSE Result([r.s EXCEPT !.px[r.proxy].ctor = r1.proxy], r.proxy) :
                   r \in { CreateObject(r1.s, proto, map, NoNs, opts) } })
        ELSE IF InstanceOf(proto, ConstructorOf(proto))
            THEN CtorInternal(r1.s, r1.proxy, proto, map)
        ELSE Result(r1.s, r1.s.px[r1.proxy].prototype) :
        r1 \in { Only({ IF GetProxy(s, ConstructorOf(proto)) # NoId
                        THEN Result(s, GetProxy(s, ConstructorOf(proto)))
                        ELSE CreateCtorFunction(s, ConstructorOf(proto), NULL, opts) :
                        s \in {s0} }) } })

(***************************************************************************)
(* createObject: mirror the prototype of obj, then create the proxy object *)
(* and define its members.                                                 *)
(***************************************************************************)
CreateObject(s0, obj, map, ns, opts) ==
    Only({
        IF r2.s.err # "none" THEN Result(r2.s, NoId)
        ELSE Only({ IF s4.err # "none" THEN Result(s4, NoId)
                    ELSE Result(s4, NextId(r2.s, obj)) :
                    s4 \in { DefineProperties(
                                 Alloc(r2.s, NewPx("object", obj, r2.proxy, ns, NoNs, opts,
                                                   "none")),
                                 NextId(r2.s, obj), obj, map, ns, opts) } }) :
        r2 \in { MirrorProto(s0, ProtoOf(obj), map, opts) } })

(***************************************************************************)
(* createProxy: dispatch on the type of the target.                        *)
(***************************************************************************)
CreateProxy(s, target, opts, map) ==
    IF TypeOf(target) = "function" THEN
        IF opts.functionType = "ctor" \/ target \in Capitalized
        THEN CreateCtorFunction(s, target, map, opts)
        ELSE Result(Alloc(s, NewPx("fn", target, NoId, NoNs, QName(NoNs, target), opts,
                                   IF opts.functionType = "out" THEN "out" ELSE "in")),
                    NextId(s, target))
    ELSE IF TypeOf(target) = "object" THEN CreateObject(s, target, map, NoNs, opts)
    ELSE Failed(s, "TypeError")

\* this.getProxy(obj) || createProxy(this, obj, options, map)
Facade(target, opts, map) ==
    Only({ IF GetProxy(s, target) # NoId THEN Result(s, GetProxy(s, target))
           ELSE CreateProxy(s, target, opts, map) :
           s \in {State} })

(***************************************************************************)
(* What the last operation did.  policy: the access policy was evaluated;  *)
(* hook: an interceptor was called; host: a host property was read or      *)
(* written or a host function invoked; guest: guest code was invoked.      *)
(***************************************************************************)
Did(op, target, id, name, result, outcome, policyF, hookF, hostF, guestF) ==
    [op |-> op, target |-> target, id |-> id, name |-> name, result |-> result,
     outcome |-> outcome, policy |-> policyF, hook |-> hookF, host |-> hostF,
     guest |-> guestF]

Nothing == Did("init", NULL, NoId, "", NoId, "ok", FALSE, FALSE, FALSE, FALSE)

\* the objects that have, or can be given, an own property count; DogP's is
\* the one of OwnProps
Slotted == {"DogP", "d1", "d2"}

\* obj.run is a slot the host can assign; its cell holds the value assigned
\* last, NULL while it holds the function run it has from the start
SlotCells == Slotted \cup {"obj"}

NoSlots == [h \in SlotCells |-> IF h = "DogP" THEN "0" ELSE NULL]

\* the values guest code writes
SetValues == {"5"}

NoHook == [kind |-> "get", supplied |-> FALSE, returns |-> "undefined", host |-> "primitive",
           decided |-> FALSE, result |-> "none", hostRan |-> FALSE]

Idle == [pc |-> "idle", arg |-> NoId, got |-> NULL, out |-> NoId]

(***************************************************************************)
(* Listener bookkeeping of Runspace.  One host EventEmitter is shared by   *)
(* the host and two sandboxes; sandbox "A" is the runspace whose membrane  *)
(* the variables above describe.  A listener is a record of who attached   *)
(* it (by), the function attached (fn: each wrapper call hands the host a  *)
(* new trampoline, numbered as it is made; a host function for the host),  *)
(* the guest function behind the trampoline (cb) and whether it was added  *)
(* with once.  An EventManager entry is the record pushed by addListener.  *)
(* An 'exit' listener of the private process emitter also tells whether    *)
(* the guest function throws when it is invoked.                           *)
(***************************************************************************)
Sandboxes == {"A", "B"}
Owners == Sandboxes \cup {"host"}
Events == {"data", "end"}
GuestFns == {"g1", "g2"}

NoListeners == [e \in Events |-> << >>]

\* an EventManager that has no record for the emitter
NoManager == [has |-> FALSE, on |-> NoListeners]

NoAnswer == [by |-> NULL, op |-> "none", event |-> NULL, value |-> << >>, count |-> 0,
             tick |-> 0]

\* nothing attached yet; st tells, per sandbox, whether the shared emitter is
\* registered strongly there (FALSE: isWeaklyProxied(emitter) holds)
EventStart(st) ==
    /\ bound = NoListeners
    /\ managers = [sb \in Sandboxes |-> NoManager]
    /\ strong = st
    /\ answer = NoAnswer
    /\ nextFn = 0
    /\ exits = << >>
    /\ forward = TRUE
    /\ runs = [i \in 1..MaxFns |-> 0]

EventIdle == EventStart([sb \in Sandboxes |-> TRUE])

\* the sequence s without the elements whose fn is in ids
Without(s, ids) == LET Stays(x) == x.fn \notin ids IN SelectSeq(s, Stays)

\* the fn of every element of s
FnsOf(s) == {s[i].fn : i \in DOMAIN s}

\* this.emitters.get(emitter), with the record getListeners creates when absent
Rec(m) == [has |-> TRUE, on |-> m.on]

\* EventManager.prototype.removeAllListeners(emitter, eventType) of one
\* sandbox, on the listeners attached to the emitter (eventType NULL: none given)
DetachAll(m, bnd, e) ==
    IF ~m.has THEN bnd
    ELSE [i \in Events |-> IF e = NULL \/ i = e THEN Without(bnd[i], FnsOf(m.on[i])) ELSE bnd[i]]

\* emit('exit') on the private process emitter: the listeners run in order
\* until one throws
FirstThrower(ls) ==
    IF \E i \in DOMAIN ls : ls[i].throws
    THEN CHOOSE i \in DOMAIN ls : ls[i].throws /\ \A j \in 1..(i - 1) : ~ls[j].throws
    ELSE Len(ls)

Invoked(ls) == {ls[i].fn : i \in 1..FirstThrower(ls)}

ExitThrows(ls) == \E i \in DOMAIN ls : ls[i].throws

AfterExit(ls) == LET Stays(x) == ~(x.once /\ x.fn \in Invoked(ls)) IN SelectSeq(ls, Stays)

RunsAfterExit(ls, rn) == [i \in DOMAIN rn |-> IF i \in Invoked(ls) THEN rn[i] + 1 ELSE rn[i]]

(***************************************************************************)
(* Paths.  A path is a root flag and a sequence of segments; an absolute   *)
(* normalised path is the sequence of its directory names below the root.  *)
(* The scope root is /a/R.                                                 *)
(***************************************************************************)
UP == ".."
Scope == << "a", "R" >>
Segments == {UP, "a", "R"}

SegsUpTo(n) == UNION {[1..k -> Segments] : k \in 0..n}

Paths == {[abs |-> b, segs |-> s] : b \in BOOLEAN, s \in SegsUpTo(MaxSegs)}

NoPath == [abs |-> FALSE, segs |-> << >>]

\* path.normalize of /acc/s: '..' steps up and stays at the root
RECURSIVE Normalize(_, _)
Normalize(acc, s) ==
    IF s = << >> THEN acc
    ELSE Normalize(IF Head(s) # UP THEN Append(acc, Head(s))
                   ELSE IF acc = << >> THEN << >>
                   ELSE SubSeq(acc, 1, Len(acc) - 1),
                   Tail(s))

\* path.resolve(base, p), base absolute and normalised
PathResolve(base, p) == Normalize(IF p.abs THEN << >> ELSE base, p.segs)

\* the length of the longest common prefix of two segment sequences
Common(a, b) ==
    CHOOSE c \in 0..Len(a) :
        /\ c <= Len(b)
        /\ \A i \in 1..c : a[i] = b[i]
        /\ (c < Len(a) /\ c < Len(b)) => a[c + 1] # b[c + 1]

\* path.relative(from, to): the segments of the relative path
PathRelative(from, to) ==
    [i \in 1..(Len(from) - Common(from, to)) |-> UP]
        \o SubSeq(to, Common(from, to) + 1, Len(to))

\* String.prototype.indexOf('..' + path.sep) >= 0 on the joined segments:
\* a segment ending in '..' that another segment follows
HasUpSep(rel) == \E i \in 1..(Len(rel) - 1) : rel[i] = UP

isContained(basedir, dirname) == ~HasUpSep(PathRelative(basedir, dirname))

\* dirname is basedir or lies below it
Below(basedir, dirname) ==
    /\ Len(basedir) <= Len(dirname)
    /\ SubSeq(dirname, 1, Len(basedir)) = basedir

\* some functions of fs: the path arguments node hands to the file system
FsMethods == {"readFile", "readdir", "rename", "link", "fstat", "read"}
FsStartsWithF == {"fstat"}
FsPathArgs(method) ==
    IF method \in {"rename", "link"} THEN {1, 2}
    ELSE IF method \in {"readFile", "readdir"} THEN {1}
    ELSE {}

FS_ARG_CHECK(method) ==
    LET checkArg1 == method \notin FsStartsWithF
                     /\ method \notin {"read", "readSync", "write", "writeSync"}
        checkArg2 == checkArg1 /\ method \in {"rename", "renameSync", "link", "linkSync"}
    IN  (IF checkArg1 THEN {1} ELSE {}) \cup (IF checkArg2 THEN {2} ELSE {})

NoFsCall == [method |-> "read", arg1 |-> NoPath, arg2 |-> NoPath, decided |-> FALSE,
             outcome |-> "none", to1 |-> << >>, to2 |-> << >>]

(***************************************************************************)
(* The module loader.  Sandbox A has scope root /a/R, sandbox B /a; both   *)
(* issue require from the directory /a/R.  Files holds the paths at which  *)
(* tryFile or tryDirectory finds a module.                                 *)
(***************************************************************************)
NM == "node_modules"
ScopeOf == [sb \in Sandboxes |-> IF sb = "A" THEN Scope ELSE << "a" >>]
LoadPaths == [sb \in Sandboxes |-> << >>]
GlobalPaths == << >>
RequireDir == Scope

Files == { << "a", "R", "x" >>, << "a", "R", "y" >>, << "a", "R", NM, "foo" >>,
           << "a", NM, "bar" >>, << "a", "x" >>, << "a" >> }

Id(prefix, segs) == [prefix |-> prefix, segs |-> segs]

RequireIds == { Id("./", << "x" >>), Id("../", << >>), Id("../", << UP, "x" >>),
                Id("/", << "a", "x" >>), Id("/", << "a", "R", "x" >>),
                Id("", << "foo" >>), Id("", << "bar" >>), Id("", << "baz" >>),
                Id("", << "foo", UP, UP, UP, "x" >>) }

\* the segments of the specifier as path.resolve and path.join read them
IdPath(id) == [abs |-> id.prefix = "/",
               segs |-> IF id.prefix = "../" THEN << UP >> \o id.segs ELSE id.segs]

\* tryFile(p, exts) || tryDirectory(p, exts)
Found(p) == [found |-> p \in Files, file |-> IF p \in Files THEN p ELSE << >>]

\* Module._nodeModulePaths(dir)
NodeModulePaths(dir) ==
    [i \in 1..(Len(dir) + 1) |-> Append(SubSeq(dir, 1, Len(dir) + 1 - i), NM)]

\* runspace.isPathAllowed
isPathAllowed(sb, p) == isContained(ScopeOf[sb], p)

\* the list resolveNodeModules builds for dir when lookupPaths has none
LookupFor(sb, dir) ==
    LET Allowed(p) == isPathAllowed(sb, p)
    IN  IF ~isPathAllowed(sb, dir) THEN NodeModulePaths(dir) \o GlobalPaths
        ELSE SelectSeq(NodeModulePaths(dir), Allowed) \o LoadPaths[sb]
                 \o SelectSeq(GlobalPaths, Allowed)

NoLookups == [has |-> FALSE, paths |-> << >>]

\* the loop of resolveNodeModules over paths
ResolveNodeModules(paths, id) ==
    IF \E i \in DOMAIN paths : Normalize(paths[i], IdPath(id).segs) \in Files
    THEN Found(Normalize(paths[CHOOSE i \in DOMAIN paths :
                   /\ Normalize(paths[i], IdPath(id).segs) \in Files
                   /\ \A j \in 1..(i - 1) : Normalize(paths[j], IdPath(id).segs) \notin Files],
                   IdPath(id).segs))
    ELSE [found |-> FALSE, file |-> << >>]

\* resolveFilename tries the path itself before the lookup paths
TriesPath(sb, dir, id) ==
    /\ id.prefix # ""
    /\ ~isPathAllowed(sb, dir) \/ isPathAllowed(sb, PathResolve(dir, IdPath(id)))

\* resolveFilename ends in resolveNodeModules
NeedsLookup(sb, dir, id) ==
    ~(TriesPath(sb, dir, id) /\ PathResolve(dir, IdPath(id)) \in Files)

\* resolveFilename(id) of sandbox sb at dir, with paths the lookup list in use
ResolveFilename(sb, dir, paths, id) ==
    IF NeedsLookup(sb, dir, id) THEN ResolveNodeModules(paths, id)
    ELSE Found(PathResolve(dir, IdPath(id)))

NoCached == [has |-> FALSE, file |-> << >>]
\* the specifiers the module bodies in /a/R use for each other
ModuleIds == { Id("./", << "x" >>), Id("./", << "y" >>) }

NoCache == [id \in RequireIds \cup ModuleIds |-> NoCached]
NoModules == [f \in Files |-> 0]

NoRequire == [by |-> NULL, id |-> Id("", << >>), outcome |-> "none", file |-> << >>,
              instance |-> 0, tick |-> 0, count |-> 0]

\* a module body that requires nothing and does not throw; a body requires
\* at most one module (has, id) and after that throws never, always, or
\* once (until a load of the file has failed in the sandbox)
NoNeed == [has |-> FALSE, id |-> Id("", << >>), throws |-> "never"]
NoBodies == [f \in Files |-> NoNeed]

\* nothing loaded yet, the module files having the bodies b
ModulesStart(b) ==
    /\ bodies = b
    /\ requireFS = FALSE
    /\ steps = << >>
    /\ failed = [sb \in Sandboxes |-> {}]
    /\ made = 0

ModulesIdle == ModulesStart(NoBodies)

(***************************************************************************)
(* Timers.  A handle is numbered as it is made; it is live while the host  *)
(* event loop has it scheduled.                                            *)
(***************************************************************************)
TimerKinds == {"immediate", "interval", "timeout"}
MaxTimers == 2
NoHandle == [kind |-> NULL, state |-> "none"]

TimersIdle ==
    /\ timerCallbacks = [k \in TimerKinds |-> << >>]
    /\ handles = [h \in 1..MaxTimers |-> NoHandle]

EnvIdle ==
    /\ fsCall = NoFsCall
    /\ lookupPaths = NoLookups
    /\ pathCache = [sb \in Sandboxes |-> NoCache]
    /\ moduleCache = [sb \in Sandboxes |-> NoModules]
    /\ required = NoRequire
    /\ ModulesIdle
    /\ TimersIdle

NoPolicy == [opts |-> NoOptions, name |-> QName(NoNs, ""), decided |-> FALSE, denied |-> FALSE]

\* a new membrane
MembraneInit ==
    /\ permMap = EmptyMap
    /\ tempMaps = << EmptyMap >>
    /\ px = << >>
    /\ terminated = FALSE
    /\ emitted = 0
    /\ onceArmed = TRUE
    /\ cleanups = 0
    /\ heapProto = [n \in Spares |-> NULL]
    /\ held = {}
    /\ last = Nothing
    /\ policy = NoPolicy
    /\ slots = NoSlots
    /\ hook = NoHook
    /\ internalAccess = FALSE
    /\ unwrapping = Idle

Init ==
    /\ MembraneInit
    /\ EventIdle
    /\ EnvIdle

Targets == {"obj", "d1", "d2", "run", PRIM}

Commit(s) ==
    /\ Cardinality(DOMAIN s.px) <= MaxProxies
    /\ permMap' = s.perm
    /\ tempMaps' = s.temps
    /\ px' = s.px

Outcome(s) == IF s.err = "none" THEN "ok" ELSE s.err

\* the handles of the list arr
Tracked(arr) == {arr[i] : i \in DOMAIN arr}

\* clear(timerCallbacks.immediate, clearImmediate), clear(.interval,
\* clearInterval), clear(.timeout, clearTimeout): every handle of a list is
\* handed to the clear function of the list's kind
ClearAll(lists, hs) ==
    [h \in DOMAIN hs |->
        IF hs[h].state = "live" /\ h \in Tracked(lists[hs[h].kind])
        THEN [hs[h] EXCEPT !.state = "killed"] ELSE hs[h]]

Create(op, target, opts, map) ==
    \E r \in {Facade(target, opts, map)} :
       /\ Commit(r.s)
       /\ last' = Did(op, target, NoId, "", r.proxy, Outcome(r.s), FALSE, FALSE, FALSE, FALSE)
       /\ UNCHANGED << terminated, emitted, onceArmed, cleanups, heapProto, slots, held, policy, hook, gateVars, eventVars, envVars >>

\* Proxy.prototype.add
Add(target, opts) == Create("add", target, opts, "perm")

\* Proxy.prototype.proxy
ProxyOp(target, opts) == Create("proxy", target, opts, NULL)

\* Proxy.prototype.weakProxy
WeakProxy(target, opts) == Create("weakProxy", target, opts, "temp")

\* Proxy.prototype.getProxy, called by the host
GetProxyCall(target) ==
    /\ last' = Did("getProxy", target, NoId, "", GetProxy(State, target), "ok",
                   FALSE, FALSE, FALSE, FALSE)
    /\ UNCHANGED << permMap, tempMaps, px, terminated, emitted, onceArmed, cleanups,
                    heapProto, slots, held, policy, hook, gateVars, eventVars, envVars >>

\* a terminate that keeps the WeakMap instance it has
TerminateKeepingWeakMap ==
    /\ emitted < MaxTerminate
    /\ terminated' = TRUE
    /\ permMap' = EmptyMap
    /\ tempMaps' = tempMaps
    /\ emitted' = emitted + 1
    /\ cleanups' = IF onceArmed THEN cleanups + 1 ELSE cleanups
    /\ onceArmed' = FALSE
    /\ managers' = IF onceArmed THEN [managers EXCEPT !["A"] = NoManager] ELSE managers
    /\ bound' = IF onceArmed THEN DetachAll(managers["A"], bound, NULL) ELSE bound
    /\ forward' = (forward /\ ~onceArmed)
    /\ exits' = IF onceArmed THEN AfterExit(exits) ELSE exits
    /\ runs' = IF onceArmed THEN RunsAfterExit(exits, runs) ELSE runs
    /\ last' = Did("terminate", NULL, NoId, "", NoId,
                   IF onceArmed /\ ExitThrows(exits) THEN "RethrownToHost" ELSE "ok",
                   FALSE, FALSE, FALSE, onceArmed /\ exits # << >>)
    /\ timerCallbacks' = IF onceArmed THEN [k \in TimerKinds |-> << >>] ELSE timerCallbacks
    /\ handles' = IF onceArmed THEN ClearAll(timerCallbacks, handles) ELSE handles
    /\ UNCHANGED << px, heapProto, slots, held, policy, hook, gateVars, strong, answer, nextFn,
                    fsCall, lookupPaths, pathCache, moduleCache, required, moduleVars >>

(***************************************************************************)
(* Proxy.prototype.terminate, with the observers of 'terminate': emit      *)
(* runs the listeners synchronously; Runspace's cleanup handler was        *)
(* registered with once, so it is removed when it first runs.  The handler *)
(* detaches forwardExit from the real process, removes every listener its  *)
(* EventManager recorded, and last emits 'exit' on the private process     *)
(* emitter; an exception of an 'exit' listener leaves terminate through    *)
(* both emits.                                                             *)
(***************************************************************************)
Terminate ==
    /\ emitted < MaxTerminate
    /\ terminated' = TRUE
    /\ permMap' = EmptyMap
    /\ tempMaps' = Append(tempMaps, EmptyMap)
    /\ emitted' = emitted + 1
    /\ cleanups' = IF onceArmed THEN cleanups + 1 ELSE cleanups
    /\ onceArmed' = FALSE
    /\ managers' = IF onceArmed THEN [managers EXCEPT !["A"] = NoManager] ELSE managers
    /\ bound' = IF onceArmed THEN DetachAll(managers["A"], bound, NULL) ELSE bound
    /\ forward' = (forward /\ ~onceArmed)
    /\ exits' = IF onceArmed THEN AfterExit(exits) ELSE exits
    /\ runs' = IF onceArmed THEN RunsAfterExit(exits, runs) ELSE runs
    /\ last' = Did("terminate", NULL, NoId, "", NoId,
                   IF onceArmed /\ ExitThrows(exits) THEN "RethrownToHost" ELSE "ok",
                   FALSE, FALSE, FALSE, onceArmed /\ exits # << >>)
    /\ timerCallbacks' = IF onceArmed THEN [k \in TimerKinds |-> << >>] ELSE timerCallbacks
    /\ handles' = IF onceArmed THEN ClearAll(timerCallbacks, handles) ELSE handles
    /\ UNCHANGED << px, heapProto, slots, held, policy, hook, gateVars, strong, answer, nextFn,
                    fsCall, lookupPaths, pathCache, moduleCache, required, moduleVars >>


(***************************************************************************)
(* Guest code using the proxies it holds.  A member n read or written on   *)
(* proxy p is found on p or on the nearest proxy of its prototype chain    *)
(* that defines it.                                                        *)
(***************************************************************************)
IsShadowed(p, n) == \E sh \in px[p].shadow : sh.name = n

HasMember(p, n) ==
    \/ IsShadowed(p, n)
    \/ (px[p].kind \in {"object", "ctor"} /\ HasOwn(px[p].target, n))

RECURSIVE Owner(_, _)
Owner(p, n) ==
    IF p = NoId THEN NoId
    ELSE IF HasMember(p, n) THEN p
    ELSE Owner(px[p].proto, n)

RECURSIVE LiveVal(_, _)
\* target[prop], looked up along the host prototype chain
LiveVal(h, n) ==
    IF h = NULL THEN PRIM
    ELSE IF n = "count" /\ h \in Slotted
         THEN IF slots[h] # NULL THEN slots[h] ELSE LiveVal(ProtoOf(h), n)
    ELSE IF n = "run" /\ h = "obj" /\ slots[h] # NULL THEN slots[h]
    ELSE IF HasOwn(h, n) THEN OwnProp(h, n).val
    ELSE LiveVal(ProtoOf(h), n)

\* the accessor installed for member n of proxy q: what it closes over
Member(q, n) ==
    IF IsShadowed(q, n)
    THEN LET sh == CHOOSE x \in px[q].shadow : x.name = n
         IN [target |-> px[q].target, shape |-> "dynamic", ns |-> sh.ns,
             opts |-> sh.opts, map |-> sh.map, gen |-> sh.gen]
    ELSE [target |-> px[q].target, shape |-> Shape(OwnProp(px[q].target, n)),
          ns |-> px[q].ns, opts |-> px[q].opts, map |-> px[q].map, gen |-> px[q].gen]

\* a wrapObject that hands every value over as it is
WrapObjectIdentity(s, v) == Result(s, Raw(v))

\* a wrapObject that does not look for the registered proxy of the value
WrapObjectNoLookup(s, v) ==
    IF TypeOf(v) = "primitive" THEN Result(s, Raw(v))
    ELSE IF GetProxy(s, ConstructorOf(v)) # NoId /\ InstanceOf(v, ConstructorOf(v))
         THEN CtorInternal(s, GetProxy(s, ConstructorOf(v)), v, NULL)
    ELSE Result(s, Raw(v))

\* wrapObject: the registered proxy, else a new instance proxy made by the
\* registered proxy of the constructor, else the value itself
WrapObject(s, v) ==
    IF TypeOf(v) = "primitive" THEN Result(s, Raw(v))
    ELSE IF GetProxy(s, v) # NoId THEN Result(s, GetProxy(s, v))
    ELSE IF GetProxy(s, ConstructorOf(v)) # NoId /\ InstanceOf(v, ConstructorOf(v))
         THEN CtorInternal(s, GetProxy(s, ConstructorOf(v)), v, NULL)
    ELSE Result(s, Raw(v))

\* unwrapObject, run to its end on a value that crossed the membrane: the
\* target of an object that has an own __proxyTarget__ (the proxies that went
\* through defineProperties), else the value itself
UnwrapObject(s, x) ==
    IF x \in DOMAIN s.px /\ s.px[x].kind \in {"object", "ctor"}
    THEN Raw(s.px[x].target)
    ELSE x

Keep == UNCHANGED << permMap, tempMaps, px >>
Rest == UNCHANGED << terminated, emitted, onceArmed, cleanups, heapProto, held, policy, hook, gateVars, eventVars, envVars >>

\* the function returned by createGetter, for member m read as n through p;
\* read tells whether the caller has already read target[prop]
Getter(p, n, m, read) ==
    IF terminated THEN
        /\ Keep
        /\ last' = Did("get", m.target, p, n, NoId, "Terminated", FALSE, FALSE, read, FALSE)
    ELSE IF Denied(m.opts, QName(m.ns, n)) THEN
        /\ Keep
        /\ last' = Did("get", m.target, p, n, NoId, "AccessDenied", TRUE, FALSE, read, FALSE)
    ELSE \E r \in {WrapObject(State, LiveVal(m.target, n))} :
            /\ Commit(r.s)
            /\ last' = Did("get", m.target, p, n, r.proxy, Outcome(r.s), TRUE, m.opts.hooks,
                           TRUE, FALSE)

\* the function returned by createSetter, given the value v: obj[prop] = value
\* (the result recorded for a write that succeeds is the value stored)
Setter(p, n, m, read, v) ==
    IF terminated THEN
        /\ slots' = slots
        /\ last' = Did("set", m.target, p, n, NoId, "Terminated", FALSE, FALSE, read, FALSE)
    ELSE IF Denied(m.opts, QName(m.ns, n)) THEN
        /\ slots' = slots
        /\ last' = Did("set", m.target, p, n, NoId, "AccessDenied", TRUE, FALSE, read, FALSE)
    ELSE /\ slots' = IF (n = "count" /\ m.target \in Slotted) \/ (n = "run" /\ m.target = "obj")
                     THEN [slots EXCEPT ![m.target] = v] ELSE slots
         /\ last' = Did("set", m.target, p, n, Raw(v), "ok", TRUE, m.opts.hooks, TRUE, FALSE)

\* a setter that always writes through the accessor it found on the chain
ReceiverIsOwner(p, q, m) == m

\* the accessor a write of member n through p ends in, m being the accessor
\* found on proxy q: when the receiver is not q, a new own accessor of p over
\* p's own target, registered in the map p's target is registered in
Receiver(p, q, m) ==
    IF p = q THEN m
    ELSE [m EXCEPT !.target = px[p].target,
                   !.map = IF IsWeaklyProxied(State, px[p].target) THEN "temp" ELSE "perm",
                   !.gen = CurGen(State)]

(***************************************************************************)
(* Reading member n of proxy p.  A constructor member and a method are     *)
(* plain values (op "value": no wrapper code runs).  The accessor of a writable data property first reads     *)
(* the live value: a function is answered with its call wrapper, created   *)
(* and cached in the map the accessor closed over; anything else goes to   *)
(* the guarded getter.                                                     *)
(***************************************************************************)
GuestGet(p, n) ==
    LET q == Owner(p, n)
    IN /\ q # NoId
       /\ Rest
       /\ slots' = slots
       /\ LET m == Member(q, n)
              v == LiveVal(m.target, n)
          IN IF m.shape \in {"ctor", "method"} THEN
                 /\ Keep
                 /\ last' = Did("value", m.target, p, n, px[q].vals[n], "ok",
                                FALSE, FALSE, FALSE, FALSE)
             ELSE IF m.shape = "dynamic" /\ TypeOf(v) = "function" THEN
                 \E s \in {State} :
                 \E s1 \in { IF MapGet(s, m.map, m.gen, v) # NoId THEN s
                             ELSE MapSet(Alloc(s, NewPx("fn", v, NoId, m.ns, QName(m.ns, n),
                                                        m.opts, "in")),
                                         m.map, m.gen, v, NextId(s, v)) } :
                    /\ Commit(s1)
                    /\ last' = Did("get", m.target, p, n, MapGet(s1, m.map, m.gen, v), "ok",
                                   FALSE, FALSE, TRUE, FALSE)
             ELSE Getter(p, n, m, m.shape = "dynamic")

(***************************************************************************)
(* Writing member n of proxy p.  Only an accessor with a setter and a      *)
(* writable data property have a setter on the proxy.  Through the         *)
(* accessor of a writable data property: a receiver other than the proxy   *)
(* that owns the accessor gets an own accessor of its own target, and the  *)
(* write is repeated on it; a function-valued slot is never written.  A    *)
(* capitalized function-valued member is a writable data property of the   *)
(* proxy itself, holding the constructor proxy: the assignment replaces    *)
(* what the proxy holds and no code of the membrane runs.                  *)
(***************************************************************************)
GuestSet(p, n, v) ==
    LET q == Owner(p, n)
    IN /\ q # NoId
       /\ Rest
       /\ permMap' = permMap
       /\ tempMaps' = tempMaps
       /\ LET m == Member(q, n)
          IN /\ m.shape \in {"accessor", "dynamic"}
                \/ (m.shape = "ctor" /\ OwnProp(m.target, n).writable /\ p = q)
             /\ IF m.shape = "accessor" THEN px' = px /\ Setter(p, n, m, FALSE, v)
                ELSE IF m.shape = "ctor" THEN
                    /\ px' = [px EXCEPT ![q].vals[n] = Raw(v)]
                    /\ slots' = slots
                    /\ last' = Did("set", m.target, p, n, Raw(v), "ok",
                                   FALSE, FALSE, FALSE, FALSE)
                ELSE \E mm \in {Receiver(p, q, m)} :
                        /\ px' = IF mm = m THEN px
                                 ELSE [px EXCEPT ![p].shadow = @ \cup
                                           {[name |-> n, ns |-> mm.ns, opts |-> mm.opts,
                                             map |-> mm.map, gen |-> mm.gen]}]
                        /\ IF TypeOf(LiveVal(mm.target, n)) = "function"
                           THEN /\ slots' = slots
                                /\ last' = Did("set", mm.target, p, n, NoId, "AccessDenied",
                                               FALSE, FALSE, TRUE, FALSE)
                           ELSE Setter(p, n, mm, TRUE, v)

(***************************************************************************)
(* Calling the wrapper w made by createFunction, optionally passing a      *)
(* guest function as argument.  hookValue: the call interceptor, when      *)
(* supplied, returns a value other than undefined.  Each function argument *)
(* reaches the host function as a trampoline, which some host functions    *)
(* keep for later.                                                         *)
(***************************************************************************)
GuestCall(w, cb, hookValue) ==
    /\ w \in DOMAIN px
    /\ px[w].kind = "fn"
    /\ UNCHANGED << terminated, emitted, onceArmed, cleanups, heapProto, slots, policy, hook, gateVars, eventVars, envVars >>
    /\ hookValue => px[w].opts.hooks
    /\ IF terminated THEN
           /\ Keep
           /\ held' = held
           /\ last' = Did("call", px[w].target, w, "", NoId, "Terminated",
                          FALSE, FALSE, FALSE, FALSE)
       ELSE IF Denied(px[w].opts, px[w].name) THEN
           /\ Keep
           /\ held' = held
           /\ last' = Did("call", px[w].target, w, "", NoId, "AccessDenied",
                          TRUE, FALSE, FALSE, FALSE)
       ELSE IF hookValue THEN
           \E r \in {WrapObject(State, HookResult)} :
              /\ Commit(r.s)
              /\ held' = held
              /\ last' = Did("call", px[w].target, w, "", r.proxy, Outcome(r.s),
                             TRUE, TRUE, FALSE, FALSE)
       ELSE
           \E r \in {WrapObject(State, Returns(px[w].target))} :
              /\ Commit(r.s)
              /\ held' = IF cb /\ px[w].target \in KeepsCallback /\ Cardinality(held) < MaxHeld
                         THEN held \cup {w} ELSE held
              /\ last' = Did("call", px[w].target, w, "", r.proxy, Outcome(r.s),
                             TRUE, px[w].opts.hooks, TRUE, FALSE)

(***************************************************************************)
(* Guest code constructing through the constructor proxy c: the host       *)
(* constructor runs on a new object of its prototype, and the result is    *)
(* materialized on the new receiver and registered in host._tempMap.       *)
(***************************************************************************)
GuestNew(c, hookValue) ==
    /\ c \in DOMAIN px
    /\ px[c].kind = "ctor"
    /\ UNCHANGED << terminated, emitted, onceArmed, cleanups, slots, held, policy, hook, gateVars, eventVars, envVars >>
    /\ hookValue => px[c].opts.hooks
    /\ IF terminated THEN
           /\ Keep
           /\ heapProto' = heapProto
           /\ last' = Did("new", px[c].target, c, "", NoId, "Terminated",
                          FALSE, FALSE, FALSE, FALSE)
       ELSE IF hookValue THEN
           /\ Keep
           /\ heapProto' = heapProto
           /\ last' = Did("new", px[c].target, c, "", NoId, "ok", FALSE, TRUE, FALSE, FALSE)
       ELSE \E n \in Spares :
           /\ heapProto[n] = NULL
           /\ heapProto' = [heapProto EXCEPT ![n] = PrototypeSlot(px[c].target)]
           /\ \E s2 \in { DefineProperties(
                                Alloc(State, NewPx("object", n, px[c].prototype,
                                                   InstNs(px[c].target), NoNs, px[c].opts,
                                                   "none")),
                                NextId(State, n), n, NULL, InstNs(px[c].target),
                                px[c].opts) } :
                 /\ Commit(s2)
                 /\ last' = Did("new", px[c].target, c, "", NextId(State, n), Outcome(s2),
                                FALSE, px[c].opts.hooks, TRUE, FALSE)

(***************************************************************************)
(* A callback trampoline that the host kept is invoked: the trampoline     *)
(* translates this and the arguments (here one argument, arg) and applies  *)
(* the guest function to them, with no handler around the application.    *)
(* from tells who invokes it: host code on its own call stack ("stack"),   *)
(* or the event loop running a timer or I/O callback that was created      *)
(* inside the runspace's domain ("loop").  When the guest function throws, *)
(* the exception unwinds the invoking stack; with no host frame below it   *)
(* reaches the domain, whose 'error' handler emits 'error' on the          *)
(* runspace.                                                               *)
(***************************************************************************)
Invokers == {"stack", "loop"}

HostFire(w, arg, from, throws) ==
    /\ w \in held
    /\ UNCHANGED << terminated, emitted, onceArmed, cleanups, heapProto, slots, held, policy, hook, gateVars, eventVars, envVars >>
    /\ \E r \in {WrapObject(State, arg)} :
          /\ Commit(r.s)
          /\ last' = Did("fire", px[w].target, w, "", r.proxy,
                         IF r.s.err # "none" THEN Outcome(r.s)
                         ELSE IF ~throws THEN "ok"
                         ELSE IF from = "stack" THEN "RethrownToHost"
                         ELSE "ErrorEvent",
                         FALSE, FALSE, FALSE, r.s.err = "none")

Ids == DOMAIN px

Next ==
    \/ \E o \in Targets : \E opts \in OptionsFor(o) : Add(o, opts)
    \/ \E o \in Targets : \E opts \in OptionsFor(o) : ProxyOp(o, opts)
    \/ \E o \in Targets : \E opts \in OptionsFor(o) : WeakProxy(o, opts)
    \/ \E o \in Targets : GetProxyCall(o)
    \/ Terminate

Spec == Init /\ [][Next]_vars

\* the members guest code writes
SetNames == {"x", "secret", "run", "count"}

(***************************************************************************)
(* Guest code at work on a membrane whose host registers obj strongly and  *)
(* d1 weakly before it terminates the membrane, once.                      *)
(***************************************************************************)
GuestNext ==
    \/ \E opts \in OptionsFor("obj") : ~terminated /\ Add("obj", opts)
    \/ \E opts \in OptionsFor("d1") : ~terminated /\ ProxyOp("d1", opts)
    \/ ~terminated /\ Terminate
    \/ \E p \in Ids, n \in PropNames : GuestGet(p, n)
    \/ \E p \in Ids, n \in SetNames, v \in SetValues : GuestSet(p, n, v)
    \/ \E w \in Ids, cb \in BOOLEAN, hv \in BOOLEAN : GuestCall(w, cb, hv)
    \/ \E c \in Ids, hv \in BOOLEAN : GuestNew(c, hv)
    \/ \E w \in held, arg \in FireArgs, from \in Invokers, throws \in BOOLEAN :
          HostFire(w, arg, from, throws)

GuestSpec == Init /\ [][GuestNext]_vars

(***************************************************************************)
(* Sandbox code calling the timer functions of its global context, the     *)
(* host event loop firing a scheduled handle, and terminate.  The handle   *)
(* is tracked as the host object it is; the proxy the sandbox receives for *)
(* it is not represented.                                                  *)
(***************************************************************************)
\* an array that does not take what is pushed
PushNothing(arr, h) == arr

\* arr.push(handle)
Push(arr, h) == Append(arr, h)

\* removeItem(arr, value)
RemoveItem(arr, h) == LET Stays(x) == x # h IN SelectSeq(arr, Stays)

TimerFrame ==
    UNCHANGED << permMap, tempMaps, px, terminated, emitted, onceArmed, cleanups, heapProto,
                 held, policy, slots, hook, gateVars, eventVars, fsCall, lookupPaths,
                 pathCache, moduleCache, required, moduleVars >>

\* setImmediate, setInterval, setTimeout
SetTimer(k) ==
    /\ TimerFrame
    /\ IF terminated
       THEN /\ last' = Did("setTimer", NULL, NoId, k, NoId, "Terminated",
                           FALSE, FALSE, FALSE, FALSE)
            /\ UNCHANGED timerVars
       ELSE \E h \in 1..MaxTimers :
            /\ handles[h].state = "none"
            /\ \A j \in 1..(h - 1) : handles[j].state # "none"
            /\ handles' = [handles EXCEPT ![h] = [kind |-> k, state |-> "live"]]
            /\ timerCallbacks' = [timerCallbacks EXCEPT ![k] = Push(@, h)]
            /\ last' = Did("setTimer", NULL, NoId, k, NoId, "ok", FALSE, TRUE, TRUE, FALSE)

\* clearImmediate, clearInterval, clearTimeout with a handle the sandbox was
\* given; what the host clear function of one kind does to a live handle of
\* another kind is left open
ClearTimer(k, h) ==
    /\ TimerFrame
    /\ handles[h].state # "none"
    /\ IF terminated
       THEN /\ last' = Did("clearTimer", NULL, NoId, k, NoId, "Terminated",
                           FALSE, FALSE, FALSE, FALSE)
            /\ UNCHANGED timerVars
       ELSE /\ timerCallbacks' = [timerCallbacks EXCEPT ![k] = RemoveItem(@, h)]
            /\ \E s \in IF handles[h].state # "live" THEN {handles[h].state}
                         ELSE IF handles[h].kind = k THEN {"cleared"}
                         ELSE {"live", "stopped"} :
                   handles' = [handles EXCEPT ![h].state = s]
            /\ last' = Did("clearTimer", NULL, NoId, k, NoId, "ok", FALSE, TRUE, TRUE, FALSE)

\* the event loop runs the function the interceptor handed to the host for
\* handle h: for a timeout or an immediate the one that first removes the
\* handle from its list, for an interval the callback itself
FireTimer(h) ==
    /\ TimerFrame
    /\ handles[h].state = "live"
    /\ IF handles[h].kind = "interval"
       THEN UNCHANGED timerVars
       ELSE /\ timerCallbacks' = [timerCallbacks EXCEPT ![handles[h].kind] = RemoveItem(@, h)]
            /\ handles' = [handles EXCEPT ![h].state = "fired"]
    /\ last' = Did("timer", NULL, NoId, handles[h].kind, NoId, "ok", FALSE, FALSE, FALSE, TRUE)

TimerNext ==
    \/ \E k \in TimerKinds : SetTimer(k)
    \/ \E k \in TimerKinds, h \in 1..MaxTimers : ClearTimer(k, h)
    \/ \E h \in 1..MaxTimers : FireTimer(h)
    \/ Terminate

TimerSpec == Init /\ [][TimerNext]_vars

(***************************************************************************)
(* The host registering a constructor that refers to itself, an instance   *)
(* of it, and an object whose materialization fails.                       *)
(***************************************************************************)
CycleTargets == {"Node", "nd", "bad"}

CycleNext ==
    \/ \E o \in CycleTargets : Add(o, NoOptions)
    \/ ProxyOp("nd", NoOptions)
    \/ \E o \in CycleTargets : WeakProxy(o, NoOptions)
    \/ Terminate

CycleSpec == Init /\ [][CycleNext]_vars

(***************************************************************************)
(* Function-valued slots.  The host registers obj and d1; guest code reads *)
(* and writes obj.run (a function the host can replace by another function *)
(* or by a primitive), obj.Kind (a constructor), obj.x and speak, which d1 *)
(* inherits from AnimalP.                                                  *)
(***************************************************************************)
Replacements == {"speak", PRIM}

\* host code assigning obj.run
HostReplace(v) ==
    /\ slots["obj"] # v
    /\ slots' = [slots EXCEPT !["obj"] = v]
    /\ last' = Did("replace", "obj", NoId, "run", Raw(v), "ok", FALSE, FALSE, TRUE, FALSE)
    /\ Keep
    /\ Rest

SlotNames == {"run", "Kind", "x", "speak"}

SlotNext ==
    \/ ~terminated /\ Add("obj", NoOptions)
    \/ ~terminated /\ ProxyOp("d1", NoOptions)
    \/ ~terminated /\ Terminate
    \/ \E v \in Replacements : HostReplace(v)
    \/ \E p \in Ids, n \in SlotNames : GuestGet(p, n)
    \/ \E p \in Ids, n \in SlotNames, v \in SetValues : GuestSet(p, n, v)

SlotSpec == Init /\ [][SlotNext]_vars

(***************************************************************************)
(* The host handing the membrane targets of every type: the denylisted     *)
(* constructors, an array, a primitive, and an instance of a constructor   *)
(* that can be proxied.                                                    *)
(***************************************************************************)
TypeTargets == {"Object", "Array", "arr", PRIM, "d1"}

TypeNext ==
    \/ \E o \in TypeTargets : Add(o, NoOptions)
    \/ \E o \in TypeTargets : ProxyOp(o, NoOptions)
    \/ \E o \in TypeTargets : WeakProxy(o, NoOptions)
    \/ Terminate

TypeSpec == Init /\ [][TypeNext]_vars

(***************************************************************************)
(* Two instances of one prototype, each handed to guest code by the host,  *)
(* and guest code reading and writing the property count through every     *)
(* proxy it can reach (the proxies of the prototypes included).            *)
(***************************************************************************)
Instances == {"d1", "d2"}

ShadowValues == {"5", "7"}

ShadowNext ==
    \/ \E o \in Instances : ~terminated /\ ProxyOp(o, NoOptions)
    \/ \E o \in Instances : ~terminated /\ Add(o, NoOptions)
    \/ ~terminated /\ Terminate
    \/ \E p \in Ids : GuestGet(p, "count")
    \/ \E p \in Ids, v \in ShadowValues : GuestSet(p, "count", v)

ShadowSpec == Init /\ [][ShadowNext]_vars

(***************************************************************************)
(* Sandbox code and the host using the shared emitter.  Every call of a    *)
(* sandbox goes through the wrapper of the EventEmitter method and its     *)
(* call interceptor: when the emitter is weakly proxied in that sandbox    *)
(* the interceptor returns undefined and the real method runs on the       *)
(* emitter; otherwise the sandbox's EventManager does the work.  A         *)
(* function argument reaches the interceptor as a new trampoline.          *)
(***************************************************************************)
EventFrame == UNCHANGED << proxyVars, strong, exits, forward, runs, envVars >>

\* host.throwIfTerminated() at the head of the wrapper
Active(sb) == sb = "A" => ~terminated

Said(sb, op, e, value, count) ==
    [by |-> sb, op |-> op, event |-> e, value |-> value, count |-> count,
     tick |-> 1 - answer.tick]

Fn(kind, cb) == [kind |-> kind, cb |-> cb]

\* EventEmitter#on, #addListener, #once
SandboxOn(sb, e, g, once) ==
    /\ Active(sb)
    /\ nextFn < MaxFns
    /\ nextFn' = nextFn + 1
    /\ \E l \in {[by |-> sb, fn |-> nextFn + 1, cb |-> g, once |-> once]} :
          /\ bound' = [bound EXCEPT ![e] = Append(@, l)]
          /\ managers' = IF strong[sb]
                         THEN [managers EXCEPT ![sb] = [Rec(@) EXCEPT !.on[e] = Append(@, l)]]
                         ELSE managers
    /\ answer' = answer
    /\ EventFrame

\* EventEmitter#removeListener: the function handed over is a trampoline made
\* for this call, which no entry and no attached listener is identical to
SandboxRemoveListener(sb, e, g) ==
    /\ Active(sb)
    /\ managers' = IF strong[sb] THEN [managers EXCEPT ![sb] = Rec(@)] ELSE managers
    /\ answer' = answer
    /\ UNCHANGED << bound, nextFn >>
    /\ EventFrame

\* EventEmitter#removeAllListeners (e = NULL: called without an event)
SandboxRemoveAll(sb, e) ==
    /\ Active(sb)
    /\ IF strong[sb]
       THEN /\ managers' = [managers EXCEPT ![sb] = NoManager]
            /\ bound' = DetachAll(managers[sb], bound, e)
       ELSE /\ managers' = managers
            /\ bound' = [i \in Events |-> IF e = NULL \/ i = e THEN << >> ELSE bound[i]]
    /\ answer' = Said(sb, "removeAllListeners", e, << >>, 0)
    /\ nextFn' = nextFn
    /\ EventFrame

\* EventEmitter#listeners: the interceptor answers v.callback of every entry
SandboxListeners(sb, e) ==
    /\ Active(sb)
    /\ IF strong[sb]
       THEN /\ managers' = [managers EXCEPT ![sb] = Rec(@)]
            /\ answer' = Said(sb, "listeners", e,
                               [k \in DOMAIN managers[sb].on[e] |-> Fn("undefined", NULL)], 0)
       ELSE /\ managers' = managers
            /\ answer' = Said(sb, "listeners", e,
                               [k \in DOMAIN bound[e] |->
                                    Fn(IF bound[e][k].by = "host" THEN "host" ELSE "trampoline",
                                       bound[e][k].cb)], 0)
    /\ UNCHANGED << bound, nextFn >>
    /\ EventFrame

\* EventEmitter#listenerCount
SandboxListenerCount(sb, e) ==
    /\ Active(sb)
    /\ managers' = IF strong[sb] THEN [managers EXCEPT ![sb] = Rec(@)] ELSE managers
    /\ answer' = Said(sb, "listenerCount", e, << >>,
                       IF strong[sb] THEN Len(managers[sb].on[e]) ELSE Len(bound[e]))
    /\ UNCHANGED << bound, nextFn >>
    /\ EventFrame

\* the host attaching a listener of its own
HostOn(e) ==
    /\ nextFn < MaxFns
    /\ nextFn' = nextFn + 1
    /\ bound' = [bound EXCEPT ![e] = Append(@, [by |-> "host", fn |-> nextFn + 1, cb |-> "h",
                                                 once |-> FALSE])]
    /\ UNCHANGED << managers, answer >>
    /\ EventFrame

\* the listeners of event e that detach themselves when the event is emitted:
\* those added with once, unless the EventManager that has to remove them no
\* longer has their entry
Detaching(e) ==
    {bound[e][k].fn : k \in {k \in DOMAIN bound[e] :
        /\ bound[e][k].once
        /\ (bound[e][k].by \in Sandboxes /\ strong[bound[e][k].by])
              => bound[e][k].fn \in FnsOf(managers[bound[e][k].by].on[e])}}

\* the host emitting event e
HostEmit(e) ==
    /\ bound[e] # << >>
    /\ bound' = [bound EXCEPT ![e] = Without(@, Detaching(e))]
    /\ managers' = [sb \in Sandboxes |->
                        IF strong[sb] /\ \E k \in DOMAIN bound[e] :
                                             bound[e][k].by = sb /\ bound[e][k].once
                        THEN [Rec(managers[sb]) EXCEPT !.on[e] = Without(@, Detaching(e))]
                        ELSE managers[sb]]
    /\ UNCHANGED << answer, nextFn >>
    /\ EventFrame

EventInit ==
    /\ MembraneInit
    /\ EnvIdle
    /\ \E st \in [Sandboxes -> BOOLEAN] : EventStart(st)

EventNext ==
    \/ \E sb \in Sandboxes, e \in Events, once \in BOOLEAN : SandboxOn(sb, e, "g1", once)
    \/ \E sb \in Sandboxes, e \in Events : SandboxRemoveListener(sb, e, "g1")
    \/ \E sb \in Sandboxes, e \in Events \cup {NULL} : SandboxRemoveAll(sb, e)
    \/ \E sb \in Sandboxes, e \in Events : SandboxListeners(sb, e)
    \/ \E sb \in Sandboxes, e \in Events : SandboxListenerCount(sb, e)
    \/ \E e \in Events : HostOn(e)
    \/ \E e \in Events : HostEmit(e)
    \/ ~terminated /\ Terminate

EventSpec == EventInit /\ [][EventNext]_vars

(***************************************************************************)
(* Sandbox code attaching 'exit' listeners to its process object (the      *)
(* interceptor redirects every EventEmitter call on process to the private *)
(* emitter), the real process emitting 'exit', and terminate.              *)
(***************************************************************************)
ProcessOn(g, once, throws) ==
    /\ ~terminated
    /\ nextFn < MaxFns
    /\ nextFn' = nextFn + 1
    /\ exits' = Append(exits, [fn |-> nextFn + 1, cb |-> g, once |-> once, throws |-> throws])
    /\ UNCHANGED << proxyVars, bound, managers, strong, answer, forward, runs, envVars >>

\* forwardExit
ProcessExit ==
    /\ forward
    /\ \A i \in DOMAIN runs : runs[i] < MaxRuns
    /\ exits' = AfterExit(exits)
    /\ runs' = RunsAfterExit(exits, runs)
    /\ UNCHANGED << proxyVars, bound, managers, strong, answer, nextFn, forward, envVars >>

ExitNext ==
    \/ \E g \in GuestFns, once \in BOOLEAN, throws \in BOOLEAN : ProcessOn(g, once, throws)
    \/ ProcessExit
    \/ Terminate

ExitSpec == Init /\ [][ExitNext]_vars

(***************************************************************************)
(* Sandbox code calling a function of fs through the proxy of fs: the      *)
(* interceptor resolves and checks the arguments FS_ARG_CHECK names, then  *)
(* the host function runs on the arguments as the interceptor left them.   *)
(***************************************************************************)
FsInit ==
    /\ MembraneInit
    /\ EventIdle
    /\ lookupPaths = NoLookups
    /\ pathCache = [sb \in Sandboxes |-> NoCache]
    /\ moduleCache = [sb \in Sandboxes |-> NoModules]
    /\ required = NoRequire
    /\ ModulesIdle
    /\ TimersIdle
    /\ \E m \in FsMethods, p1 \in Paths, p2 \in Paths :
          fsCall = [NoFsCall EXCEPT !.method = m, !.arg1 = p1, !.arg2 = p2]

\* the absolute path the interceptor puts in the place of path argument p
\* (<< >> for an argument it leaves alone, which is no path)
FsTarget(method, k, p) ==
    IF k \in FS_ARG_CHECK(method) THEN PathResolve(Scope, p) ELSE << >>

FsCall ==
    /\ ~fsCall.decided
    /\ ~terminated
    /\ fsCall' = [fsCall EXCEPT
          !.decided = TRUE,
          !.to1 = FsTarget(fsCall.method, 1, fsCall.arg1),
          !.to2 = FsTarget(fsCall.method, 2, fsCall.arg2),
          !.outcome =
              IF \E k \in FS_ARG_CHECK(fsCall.method) :
                    ~isContained(Scope, PathResolve(Scope, IF k = 1 THEN fsCall.arg1
                                                           ELSE fsCall.arg2))
              THEN "EACCES" ELSE "host"]
    /\ UNCHANGED << proxyVars, eventVars, lookupPaths, pathCache, moduleCache, required,
                    moduleVars, timerVars >>

FsNext == FsCall

FsSpec == FsInit /\ [][FsNext]_vars

(***************************************************************************)
(* Sandbox code calling require.  The lookup paths of a directory are kept *)
(* in a table of the loader module, one for the process; the path cache    *)
(* and the module cache belong to each sandbox's loader.  What the body of *)
(* a module file does is given by bodies.                                  *)
(***************************************************************************)
\* new loader.Module(filename, parent): the number of the new instance
NextInstance == made + 1

\* lookupPaths[dir] after resolveFilename(id) of sandbox sb, pc being the
\* path cache of the sandbox and lk the table before
LookupsIn(pc, lk, sb, id) ==
    IF ~pc[id].has /\ NeedsLookup(sb, RequireDir, id) /\ ~lk.has
    THEN [has |-> TRUE, paths |-> LookupFor(sb, RequireDir)]
    ELSE lk

LookupsAfter(sb, id) == LookupsIn(pathCache[sb], lookupPaths, sb, id)

\* pathCache[id] || resolveFilename(id)
FilenameIn(pc, lk, sb, id) ==
    IF pc[id].has THEN [found |-> TRUE, file |-> pc[id].file]
    ELSE ResolveFilename(sb, RequireDir, LookupsIn(pc, lk, sb, id).paths, id)

Filename(sb, id) == FilenameIn(pathCache[sb], lookupPaths, sb, id)

\* one thing that happened inside a require call: a module body started
\* (run), ended (loaded) or threw (throw), or a require was answered from
\* the cache by a module that is loaded (hit) or still loading (partial);
\* fs tells whether requireFS was set at that moment
Step(what, f, inst, fs) == [what |-> what, file |-> f, instance |-> inst, fs |-> fs]

\* the loader state a require call starts in
Loader(sb) ==
    [cache |-> moduleCache[sb], paths |-> pathCache[sb], lookups |-> lookupPaths,
     fs |-> requireFS, steps |-> << >>, made |-> made, failed |-> failed[sb],
     loading |-> {}, err |-> "none", out |-> 0, file |-> << >>]

\* a loader that never finds its runspace terminated
NeverTerminated(sb) == FALSE

\* runspace.throwIfTerminated() of the loader of sandbox sb
LoaderTerminated(sb) == sb = "A" /\ terminated

\* a catch block that leaves the cache as it is
UnloadNothing(cache, f) == cache

\* delete require.cache[filename]
Unload(cache, f) == [cache EXCEPT ![f] = 0]

\* the body of f throws when it runs in a sandbox whose failed loads are fl
Throws(f, fl) ==
    \/ bodies[f].throws = "always"
    \/ bodies[f].throws = "once" /\ f \notin fl

\* require(id) of requireAt(runspace, loader, /a/R), below the termination
\* test: resolution, the cache test, and the load.  The instance is put in
\* the cache and requireFS is set before the extension handler reads the
\* file and runs the body; the body's own require is this function again;
\* catch removes the entry and finally resets requireFS.
RECURSIVE RequireIn(_, _, _)
RequireIn(ld0, sb, id) ==
    Only({
        IF ~res.found
        THEN [ld0 EXCEPT !.lookups = LookupsIn(ld0.paths, ld0.lookups, sb, id),
                         !.err = "MODULE_NOT_FOUND", !.out = 0, !.file = << >>]
        ELSE Only({
            IF ld1.cache[res.file] # 0
            THEN [ld1 EXCEPT !.out = ld1.cache[res.file], !.file = res.file,
                             !.steps = Append(@, Step(IF res.file \in ld1.loading THEN "partial"
                                                       ELSE "hit",
                                                      res.file, ld1.cache[res.file], ld1.fs))]
            ELSE Only({
                IF ld3.err # "none" \/ Throws(res.file, ld3.failed)
                THEN [ld3 EXCEPT !.cache = Unload(@, res.file),
                                 !.loading = @ \ {res.file},
                                 !.failed = @ \cup {res.file},
                                 !.err = IF ld3.err # "none" THEN ld3.err ELSE "Thrown",
                                 !.out = 0, !.file = res.file, !.fs = FALSE,
                                 !.steps = Append(@, Step("throw", res.file, ld1.made + 1,
                                                          ld3.fs))]
                ELSE [ld3 EXCEPT !.loading = @ \ {res.file},
                                 !.out = ld1.made + 1, !.file = res.file, !.fs = FALSE,
                                 !.steps = Append(@, Step("loaded", res.file, ld1.made + 1,
                                                          ld3.fs))] :
                ld3 \in { IF bodies[res.file].has
                          THEN RequireIn(ld2, sb, bodies[res.file].id)
                          ELSE ld2 :
                          ld2 \in {[ld1 EXCEPT !.cache[res.file] = ld1.made + 1,
                                               !.made = ld1.made + 1,
                                               !.loading = @ \cup {res.file},
                                               !.fs = TRUE,
                                               !.steps = Append(@, Step("run", res.file,
                                                                        ld1.made + 1, TRUE))]} }
              }) :
            ld1 \in {[ld0 EXCEPT !.lookups = LookupsIn(ld0.paths, ld0.lookups, sb, id),
                                 !.paths[id] = [has |-> TRUE, file |-> res.file]]} }) :
        res \in {FilenameIn(ld0.paths, ld0.lookups, sb, id)} })

Require(sb, id) ==
    /\ required.count < MaxRequires
    /\ UNCHANGED << proxyVars, eventVars, fsCall, bodies, timerVars >>
    /\ IF LoaderTerminated(sb)
       THEN /\ required' = [by |-> sb, id |-> id, outcome |-> "Terminated", file |-> << >>,
                             instance |-> 0, tick |-> 1 - required.tick,
                             count |-> required.count + 1]
            /\ steps' = << >>
            /\ UNCHANGED << lookupPaths, pathCache, moduleCache, requireFS, failed, made >>
       ELSE \E ld \in {RequireIn(Loader(sb), sb, id)} :
            /\ lookupPaths' = ld.lookups
            /\ pathCache' = [pathCache EXCEPT ![sb] = ld.paths]
            /\ moduleCache' = [moduleCache EXCEPT ![sb] = ld.cache]
            /\ requireFS' = ld.fs
            /\ steps' = ld.steps
            /\ failed' = [failed EXCEPT ![sb] = ld.failed]
            /\ made' = ld.made
            /\ required' = [by |-> sb, id |-> id,
                             outcome |-> IF ld.err = "none" THEN "ok" ELSE ld.err,
                             file |-> ld.file,
                             instance |-> ld.out,
                             tick |-> 1 - required.tick,
                             count |-> required.count + 1]

\* some built-in modules and what realRequire answers for them: an object,
\* a function that is no constructor, and a module of the deny list
BuiltIns == {"fs", "assert", "child_process"}
BuiltInExports == [b \in BuiltIns |-> IF b = "fs" THEN "obj" ELSE IF b = "assert" THEN "run" ELSE "d2"]
LoaderDeny == {"cluster", "child_process", "repl"}

\* require of a built-in module by sandbox A
RequireBuiltIn(b) ==
    /\ required.count < MaxRequires
    /\ required' = [required EXCEPT !.count = @ + 1]
    /\ UNCHANGED << terminated, emitted, onceArmed, cleanups, heapProto, slots, held, policy,
                    hook, gateVars, eventVars, fsCall, lookupPaths, pathCache, moduleCache,
                    moduleVars, timerVars >>
    /\ IF terminated \/ b \in LoaderDeny
       THEN /\ last' = Did("require", BuiltInExports[b], NoId, b, NoId,
                           IF terminated THEN "Terminated" ELSE "EACCES",
                           FALSE, FALSE, FALSE, FALSE)
            /\ UNCHANGED << permMap, tempMaps, px >>
       ELSE \E r \in {Facade(BuiltInExports[b], NoOptions, "perm")} :
            /\ Commit(r.s)
            /\ last' = Did("require", BuiltInExports[b], NoId, b, r.proxy, Outcome(r.s),
                           FALSE, FALSE, FALSE, FALSE)

LoaderNext ==
    \/ \E sb \in Sandboxes, id \in RequireIds : Require(sb, id)
    \/ \E b \in BuiltIns : RequireBuiltIn(b)
    \/ Terminate

LoaderSpec == Init /\ [][LoaderNext]_vars

(***************************************************************************)
(* Module files that require each other and whose bodies may throw: x      *)
(* requires ./y, and y requires ./x or nothing.                            *)
(***************************************************************************)
FileX == << "a", "R", "x" >>
FileY == << "a", "R", "y" >>
ThrowKinds == {"never", "once", "always"}

BodyChoices ==
    { [NoBodies EXCEPT ![FileX] = [has |-> TRUE, id |-> Id("./", << "y" >>), throws |-> tx],
                       ![FileY] = [has |-> cyc, id |-> IF cyc THEN Id("./", << "x" >>)
                                                       ELSE Id("", << >>),
                                    throws |-> ty]] :
      tx \in ThrowKinds, ty \in ThrowKinds, cyc \in BOOLEAN }

ModuleInit ==
    /\ MembraneInit
    /\ EventIdle
    /\ fsCall = NoFsCall
    /\ lookupPaths = NoLookups
    /\ pathCache = [sb \in Sandboxes |-> NoCache]
    /\ moduleCache = [sb \in Sandboxes |-> NoModules]
    /\ required = NoRequire
    /\ TimersIdle
    /\ \E b \in BodyChoices : ModulesStart(b)

ModuleNext ==
    \/ \E sb \in Sandboxes, id \in ModuleIds : Require(sb, id)
    \/ Terminate

ModuleSpec == ModuleInit /\ [][ModuleNext]_vars

(***************************************************************************)
(* The internal-access gate.  unwrapObject runs in three steps: it raises   *)
(* internalAccess when its argument has an own property __proxyTarget__,   *)
(* reads that property, and lowers the flag in its finally block.  The     *)
(* argument comes from guest code: a proxy, a guest-made object whose own  *)
(* __proxyTarget__ is an accessor written by the guest, a plain guest       *)
(* object or a primitive.  Guest code reads __proxyTarget__ of the proxies  *)
(* it holds whenever it runs: at its top level or inside its own accessor. *)
(* unwrapping.got is what guest code last obtained from such a read (NULL: *)
(* undefined), unwrapping.out what unwrapObject last returned.             *)
(***************************************************************************)
Trap == "trap"
GuestPlain == "gobj"

\* the proxies that went through defineProperties
HasBackLink(p) == p \in Ids /\ px[p].kind \in {"object", "ctor"}

\* hasOwnProperty(obj, '__proxyTarget__')
HasOwnBackLink(v) == HasBackLink(v) \/ v = Raw(Trap)

\* the values guest code can hand to a wrapper
GuestValues == {p \in Ids : HasBackLink(p)} \cup {Raw(Trap), Raw(GuestPlain), Raw(PRIM)}

\* the accessor of a writable data property calls unwrapObject(this) on any
\* receiver, before any other check
ReachesUnwrap == \E p \in Ids, n \in SetNames :
                    Owner(p, n) # NoId /\ Member(Owner(p, n), n).shape = "dynamic"

GateFrame == UNCHANGED << permMap, tempMaps, px, terminated, emitted, onceArmed, cleanups,
                          heapProto, slots, held, last, policy, hook, eventVars, envVars >>

\* the getter of __proxyTarget__ defined by defineProperties, read by guest code
GuestReadBackLink(p) ==
    /\ HasBackLink(p)
    /\ unwrapping.pc \in {"idle", "guest"}
    /\ unwrapping' = [unwrapping EXCEPT !.got = IF internalAccess THEN px[p].target ELSE NULL]
    /\ internalAccess' = internalAccess
    /\ GateFrame

\* unwrapObject(v): the test and internalAccess = true
UnwrapEnter(v) ==
    /\ unwrapping.pc = "idle"
    /\ ReachesUnwrap
    /\ IF HasOwnBackLink(v)
       THEN /\ internalAccess' = TRUE
            /\ unwrapping' = [unwrapping EXCEPT !.pc = "reading", !.arg = v]
       ELSE /\ internalAccess' = internalAccess
            /\ unwrapping' = [unwrapping EXCEPT !.arg = v, !.out = v]
    /\ GateFrame

\* unwrapObject: obj.__proxyTarget__, which runs the getter of a proxy to its
\* end or enters the accessor of a guest-made object
UnwrapRead ==
    /\ unwrapping.pc = "reading"
    /\ unwrapping' = IF HasBackLink(unwrapping.arg)
                     THEN [unwrapping EXCEPT !.pc = "finally",
                                             !.out = Raw(px[unwrapping.arg].target)]
                     ELSE [unwrapping EXCEPT !.pc = "guest"]
    /\ internalAccess' = internalAccess
    /\ GateFrame

\* the guest-written accessor returns
GuestReturn ==
    /\ unwrapping.pc = "guest"
    /\ unwrapping' = [unwrapping EXCEPT !.pc = "finally", !.out = Raw(GuestPlain)]
    /\ internalAccess' = internalAccess
    /\ GateFrame

\* unwrapObject: finally { internalAccess = false }
UnwrapExit ==
    /\ unwrapping.pc = "finally"
    /\ internalAccess' = FALSE
    /\ unwrapping' = [unwrapping EXCEPT !.pc = "idle"]
    /\ GateFrame

GateNext ==
    \/ \E opts \in OptionsFor("obj") : Add("obj", opts)
    \/ \E opts \in OptionsFor("d1") : ProxyOp("d1", opts)
    \/ \E p \in Ids : GuestReadBackLink(p)
    \/ \E v \in GuestValues : UnwrapEnter(v)
    \/ UnwrapRead
    \/ GuestReturn
    \/ UnwrapExit

GateSpec == Init /\ [][GateNext]_vars

(***************************************************************************)
(* One interceptor consultation on its own, past the termination and       *)
(* policy checks.  kind is the wrapper consulted (the guarded getter, the   *)
(* guarded setter, a call wrapper, a constructor proxy invoked with new);  *)
(* supplied tells whether options has the interceptor; returns is what the *)
(* interceptor returns: real undefined, the undef sentinel, a primitive or *)
(* an object; host is the kind of value the host operation yields (for a   *)
(* set: the value supplied by the caller).  The outcome names the value    *)
(* the wrapper delivers (for a set: the value it stores): "host", the      *)
(* value of the host operation, translated; "hook", the interceptor's      *)
(* value, translated; "undefined"; or "receiver", the object the new       *)
(* expression allocated, on which no member was defined.  hostRan tells    *)
(* whether the host operation ran: obj[prop], obj[prop] = value,           *)
(* fn.apply(context, args) or ctor.apply(target, args).                    *)
(***************************************************************************)
HookKinds == {"get", "set", "call", "new"}
HookReturns == {"undefined", "undef", "primitive", "object"}
HostYields == {"undefined", "primitive", "object"}

\* undef.wrap
UndefWrap(v) == IF v = "undefined" THEN "undef" ELSE v

\* undef.unwrap
UndefUnwrap(v) == IF v = "undef" THEN "undefined" ELSE v

\* what a new expression evaluates to when the function returns v: the
\* returned object, else the allocated receiver
NewExpression(v, from) == IF v = "object" THEN from ELSE "receiver"

HookOutcome(result, hostRan) == [result |-> result, hostRan |-> hostRan]

\* the body of the wrapper from the interceptor consultation on
Intercept(kind, supplied, returns, host) ==
    CASE kind = "get" ->
           \* var value = obj[prop]; nvalue = options.get(...); return wrapObject(value)
           IF supplied /\ returns # "undefined"
           THEN HookOutcome(IF UndefUnwrap(returns) = "undefined" THEN "undefined" ELSE "hook", TRUE)
           ELSE HookOutcome(IF host = "undefined" THEN "undefined" ELSE "host", TRUE)
      [] kind = "set" ->
           \* obj[prop] = undef.unwrap(nvalue); return  /  obj[prop] = value
           IF supplied /\ returns # "undefined"
           THEN HookOutcome(IF UndefUnwrap(returns) = "undefined" THEN "undefined" ELSE "hook", TRUE)
           ELSE HookOutcome(IF host = "undefined" THEN "undefined" ELSE "host", TRUE)
      [] kind = "call" ->
           \* return argsOut(undef.unwrap(value))  /  return argsOut(fn.apply(context, args))
           IF supplied /\ returns # "undefined"
           THEN HookOutcome(IF UndefUnwrap(returns) = "undefined" THEN "undefined" ELSE "hook", FALSE)
           ELSE HookOutcome(IF host = "undefined" THEN "undefined" ELSE "host", TRUE)
      [] kind = "new" ->
           \* return wrapObject(undef.unwrap(value)) inside a function invoked by new;
           \* else ctor.apply(target, args); defineProperties(this, target, ...)
           IF supplied /\ returns # "undefined"
           THEN HookOutcome(NewExpression(UndefUnwrap(returns), "hook"), FALSE)
           ELSE HookOutcome("host", TRUE)

HookInit ==
    /\ permMap = EmptyMap
    /\ tempMaps = << EmptyMap >>
    /\ px = << >>
    /\ terminated = FALSE
    /\ emitted = 0
    /\ onceArmed = TRUE
    /\ cleanups = 0
    /\ heapProto = [n \in Spares |-> NULL]
    /\ held = {}
    /\ last = Nothing
    /\ policy = NoPolicy
    /\ slots = NoSlots
    /\ internalAccess = FALSE
    /\ unwrapping = Idle
    /\ EventIdle
    /\ EnvIdle
    /\ \E kind \in HookKinds, supplied \in BOOLEAN, returns \in HookReturns, host \in HostYields :
          hook = [NoHook EXCEPT !.kind = kind, !.supplied = supplied, !.returns = returns,
                                !.host = host]

\* the wrapper runs
Consult ==
    /\ ~hook.decided
    /\ \E r \in {Intercept(hook.kind, hook.supplied, hook.returns, hook.host)} :
          hook' = [hook EXCEPT !.decided = TRUE, !.result = r.result, !.hostRan = r.hostRan]
    /\ UNCHANGED << permMap, tempMaps, px, terminated, emitted, onceArmed, cleanups,
                    heapProto, slots, held, last, policy, gateVars, eventVars, envVars >>

HookSpec == HookInit /\ [][Consult]_vars

(***************************************************************************)
(* The access-policy decision on its own: createAssertion applied to every *)
(* combination of allow and deny arrays over a few qualified names.        *)
(***************************************************************************)
QNames == {QName(NoNs, "x"), QName(NoNs, "secret"), QName(InstNs("Animal"), "speak")}

Lists == UNION {[1..n -> QNames] : n \in 0..MaxList}

\* the inputs of one decision: the options and the qualified member name
PolicyInit ==
    /\ permMap = EmptyMap
    /\ tempMaps = << EmptyMap >>
    /\ px = << >>
    /\ terminated = FALSE
    /\ emitted = 0
    /\ onceArmed = TRUE
    /\ cleanups = 0
    /\ heapProto = [n \in Spares |-> NULL]
    /\ held = {}
    /\ last = Nothing
    /\ slots = NoSlots
    /\ hook = NoHook
    /\ internalAccess = FALSE
    /\ unwrapping = Idle
    /\ EventIdle
    /\ EnvIdle
    /\ \E hasAllow \in BOOLEAN, hasDeny \in BOOLEAN, allow \in Lists, deny \in Lists,
          n \in QNames :
          /\ ~hasAllow => allow = << >>
          /\ ~hasDeny => deny = << >>
          /\ policy = [opts |-> Options(hasAllow, allow, hasDeny, deny, FALSE, "auto"),
                       name |-> n, decided |-> FALSE, denied |-> FALSE]

\* createAssertion(prop): the returned assertion throws iff the name is denied
Decide ==
    /\ ~policy.decided
    /\ policy' = [policy EXCEPT !.decided = TRUE,
                                !.denied = Denied(policy.opts, policy.name)]
    /\ UNCHANGED << permMap, tempMaps, px, terminated, emitted, onceArmed, cleanups,
                    heapProto, slots, held, last, hook, gateVars, eventVars, envVars >>

PolicySpec == PolicyInit /\ [][Decide]_vars

(***************************************************************************)
(* Properties.                                                             *)
(***************************************************************************)
Creating == {"add", "proxy", "weakProxy"}

\* host._tempMap
TempMap == tempMaps[Len(tempMaps)]

InList(arr, v) == \E i \in DOMAIN arr : arr[i] = v

\* C1.  Identity stability: on an active membrane, two successive
\* proxy-creating calls (add, proxy or weakProxy, in any combination) on the
\* same host object that both return a proxy return the same proxy.
IdentityStable ==
    [][ ( /\ ~terminated'
          /\ last.op \in Creating /\ last'.op \in Creating
          /\ last'.target = last.target
          /\ last.outcome = "ok" /\ last'.outcome = "ok" )
        => last'.result = last.result ]_vars

\* C2.  At most one proxy per host object: the strong and the weak map never
\* hold two different proxies for one host object, and no proxy-creating call
\* replaces an existing entry of either map by another proxy.
OneProxyPerObject ==
    [][ /\ \A o \in Hosts :
              (permMap'[o] # NoId /\ TempMap'[o] # NoId) => permMap'[o] = TempMap'[o]
        /\ last'.op \in Creating =>
              \A o \in Hosts :
                  /\ permMap[o] # NoId => permMap'[o] = permMap[o]
                  /\ TempMap[o] # NoId => TempMap'[o] = TempMap[o] ]_vars

\* the map in which the first proxy created for host object o was registered
FirstRegistered(o) ==
    IF << o, 1 >> \in DOMAIN px THEN px[<< o, 1 >>].map ELSE "none"

\* C3.  Retention class is decided once: after a host object is first proxied,
\* a call of add, proxy or weakProxy on it, whichever it is, leaves its
\* retention class unchanged: an object first registered with add stays out of
\* the weak map, and one first registered with proxy or weakProxy stays out of
\* the strong map.
RetentionDecidedOnce ==
    [][ \A o \in Hosts :
          (last'.op \in Creating /\ last'.target = o)
          => /\ (FirstRegistered(o) = "perm" /\ TempMap[o] = NoId) => TempMap'[o] = NoId
             /\ (FirstRegistered(o) = "temp" /\ permMap[o] = NoId) => permMap'[o] = NoId
      ]_vars

NoCreationAfterTerminate ==
    /\ (terminated /\ last.op \in Creating)
           => (last.outcome = "Terminated" /\ last.result = NoId)
    /\ terminated => (permMap = EmptyMap /\ TempMap = EmptyMap)

\* C6.  After terminate() every use of a wrapper (guarded getter or setter,
\* accessor of a writable data property, method wrapper, constructor proxy)
\* fails with Terminated before the access policy is evaluated, an interceptor
\* is called, or a host property is read, written or invoked.
TerminatedCheckedFirst ==
    (terminated /\ last.op \in {"get", "set", "call", "new"})
        => (last.outcome = "Terminated" /\ ~last.policy /\ ~last.hook /\ ~last.host)

\* C7.  terminate() is idempotent: a call on a terminated membrane emits no
\* further 'terminate' notification, runs no further cleanup, and leaves the
\* membrane terminated with empty maps.
TerminateIdempotent ==
    [][ (terminated /\ last'.op = "terminate")
        => /\ emitted' = emitted
           /\ cleanups' = cleanups
           /\ terminated'
           /\ permMap' = EmptyMap /\ TempMap' = EmptyMap ]_vars

\* C8.  A callback trampoline the host fires after terminate() is dropped
\* silently: guest code is not invoked and the host sees no exception.
CallbackDroppedAfterTerminate ==
    (terminated /\ last.op = "fire") => (~last.guest /\ last.outcome = "ok")

\* C9.  Denial enforcement: on an active membrane every access (get, set, call)
\* to a member the policy denies (named in deny, or not named in an allow list
\* that was supplied) raises AccessDenied before any interceptor is called or
\* the host member is touched.
DenialEnforced ==
    /\ ( /\ ~terminated
         /\ last.op \in {"get", "set", "value"}
         /\ Denied(Member(Owner(last.id, last.name), last.name).opts,
                   QName(Member(Owner(last.id, last.name), last.name).ns, last.name)) )
       => (last.outcome = "AccessDenied" /\ ~last.hook /\ ~last.host)
    /\ ( /\ ~terminated
         /\ last.op = "call"
         /\ Denied(px[last.id].opts, px[last.id].name) )
       => (last.outcome = "AccessDenied" /\ ~last.hook /\ ~last.host)

\* C10.  Access policy decision: a member is denied iff it is in the deny list,
\* or an allow list exists and the member is not in it; a name in both lists
\* is denied, and with neither list every member is allowed.
PolicyDecision ==
    policy.decided =>
    /\ policy.denied <=>
          \/ (policy.opts.hasDeny /\ InList(policy.opts.deny, policy.name))
          \/ (policy.opts.hasAllow /\ ~InList(policy.opts.allow, policy.name))
    /\ ( /\ policy.opts.hasDeny /\ InList(policy.opts.deny, policy.name)
         /\ policy.opts.hasAllow /\ InList(policy.opts.allow, policy.name) )
       => policy.denied
    /\ (~policy.opts.hasDeny /\ ~policy.opts.hasAllow) => ~policy.denied

\* C10 witness: a decision about a name that is in both lists.
PolicyWitness ==
    /\ policy.decided
    /\ policy.opts.hasDeny /\ InList(policy.opts.deny, policy.name)
    /\ policy.opts.hasAllow /\ InList(policy.opts.allow, policy.name)
    /\ policy.denied

\* C18.  Retention of the implicitly proxied chain: every host object that a
\* creating call registers is registered strongly by add; by proxy, weakly if
\* it is the target and strongly if it is one of its constructors or
\* prototypes; and weakly, never strongly, by weakProxy.
ChainRetention ==
    [][ \A o \in Hosts :
          ( /\ last'.op \in Creating /\ last'.outcome = "ok" /\ ~terminated
            /\ permMap[o] = NoId /\ TempMap[o] = NoId
            /\ (permMap'[o] # NoId \/ TempMap'[o] # NoId) )
          => /\ last'.op = "add" => (permMap'[o] # NoId /\ TempMap'[o] = NoId)
             /\ (last'.op = "proxy" /\ o = last'.target)
                    => (permMap'[o] = NoId /\ TempMap'[o] # NoId)
             /\ (last'.op = "proxy" /\ o # last'.target)
                    => (permMap'[o] # NoId /\ TempMap'[o] = NoId)
             /\ last'.op = "weakProxy" => (permMap'[o] = NoId /\ TempMap'[o] # NoId)
      ]_vars

\* C19.  getProxy is a pure lookup: it answers the entry of the strong map,
\* else the entry of the weak map, else undefined, and it changes neither
\* map, creates no proxy and leaves the terminated flag alone.
GetProxyIsPure ==
    [][ last'.op = "getProxy" =>
          /\ permMap' = permMap /\ tempMaps' = tempMaps /\ px' = px
          /\ terminated' = terminated
          /\ last'.result =
                IF last'.target \notin Hosts THEN NoId
                ELSE IF permMap[last'.target] # NoId THEN permMap[last'.target]
                ELSE TempMap[last'.target] ]_vars

\* C19 witness: getProxy has just answered with a proxy found in the weak map
\* only.
GetProxyWitness ==
    /\ last.op = "getProxy" /\ last.target \in Hosts
    /\ last.result # NoId
    /\ permMap[last.target] = NoId
    /\ TempMap[last.target] = last.result

\* C20.  isWeaklyProxied(host) is true iff host is a key of the weak map and not
\* of the strong map, in every reachable state.
WeaklyProxiedIffWeakOnly ==
    \A o \in Hosts :
        IsWeaklyProxied(State, o) <=> (TempMap[o] # NoId /\ permMap[o] = NoId)

\* C15.  Cycle safety: an object that refers to itself (obj.self === obj)
\* materializes, and reading the self-reference through its proxy on an active
\* membrane, where the policy lets it through, answers that very proxy.
CycleSafe ==
    /\ (last.op \in Creating /\ last.target = "obj" /\ ~terminated)
          => (last.outcome = "ok" /\ last.result = GetProxy(State, "obj"))
    /\ ( /\ last.op = "get" /\ last.target = "obj" /\ last.name = "self"
         /\ ~terminated
         /\ ~Denied(px[last.id].opts, QName(NoNs, "self")) )
          => (last.outcome = "ok" /\ last.result = last.id)

\* C15 witness: the self-reference has just been read through the proxy of obj.
CycleWitness ==
    /\ last.op = "get" /\ last.target = "obj" /\ last.name = "self"
    /\ last.outcome = "ok" /\ last.result = last.id
    /\ px[last.id].target = "obj"

\* C17.  Prototype mirroring: the prototype of every object proxy is a proxy of
\* the prototype of its target, except where the host chain has reached a
\* denylisted root (or its end), where the proxy chain stops too.
ChainMirrored ==
    \A p \in DOMAIN px :
        px[p].kind = "object" =>
            IF \/ ProtoOf(px[p].target) = NULL
               \/ ConstructorOf(ProtoOf(px[p].target)) \in DONT_PROXY \cup {NULL}
            THEN px[p].proto = NoId
            ELSE /\ px[p].proto # NoId
                 /\ px[px[p].proto].target = ProtoOf(px[p].target)

ShadowOnWrite ==
    [][ /\ (last'.op = "set" /\ last'.name = "count" /\ last'.outcome = "ok"
            /\ px'[last'.id].target \in Instances)
           => /\ Raw(slots'[px'[last'.id].target]) = last'.result
              /\ \A h \in Slotted \ {px'[last'.id].target} : slots'[h] = slots[h]
        /\ (last'.op = "get" /\ last'.name = "count" /\ last'.outcome = "ok"
            /\ px'[last'.id].target \in Instances)
           => /\ slots' = slots
              /\ last'.result = Raw(IF slots[px'[last'.id].target] # NULL
                                    THEN slots[px'[last'.id].target]
                                    ELSE slots["DogP"]) ]_vars

\* C16 witness: both instances have a proxy; one was written through its
\* proxy and the other has just been read through its own proxy, answering
\* the prototype's value, which is still the initial one.
ShadowWitness ==
    /\ last.op = "get" /\ last.name = "count" /\ last.outcome = "ok"
    /\ px[last.id].target = "d2"
    /\ slots["d1"] = "5" /\ slots["d2"] = NULL /\ slots["DogP"] = "0"
    /\ last.result = Raw("0")
    /\ \E q \in Ids : px[q].target = "d1" /\ IsShadowed(q, "count")

\* C12.  The back-link is readable only through the internal-access gate:
\* internalAccess is never true while guest-controlled code is executing
\* (the accessor of a guest-made object passed to unwrapObject included),
\* and guest code reading __proxyTarget__ of a proxy never obtains the host
\* target.
BackLinkGated ==
    /\ unwrapping.pc = "guest" => ~internalAccess
    /\ unwrapping.got = NULL

\* C13.  Round trip: for every host value v (object, function or primitive),
\* whenever wrapObject(v) ends normally, unwrapObject of what it answered is
\* v itself; in particular for a v that has a registered proxy or whose
\* constructor's proxy can materialize one, and for primitives.
RoundTrip ==
    \A v \in Hosts \cup {PRIM} :
        \A r \in {WrapObject(State, v)} :
            r.s.err = "none" => UnwrapObject(r.s, r.proxy) = Raw(v)

\* C14.  Interceptor result protocol, for the get, set, call and new
\* interceptors: an interceptor that returns real undefined has no opinion
\* and the host operation proceeds; one that returns the undef sentinel makes
\* undefined the result (the value stored, for set); any other value it
\* returns is the result, translated (the value stored, for set); and for
\* get, call and new an interceptor with an opinion is answered without the
\* host operation having run.
InterceptorProtocol ==
    (hook.decided /\ hook.supplied)
        => CASE hook.returns = "undefined" ->
                  /\ hook.hostRan
                  /\ hook.result = IF hook.host = "undefined" /\ hook.kind # "new"
                                   THEN "undefined" ELSE "host"
             [] hook.returns = "undef" ->
                  /\ hook.result = "undefined"
                  /\ hook.kind # "set" => ~hook.hostRan
             [] OTHER ->
                  /\ hook.result = "hook"
                  /\ hook.kind # "set" => ~hook.hostRan

\* the denylisted constructors other than Object: the container and buffer types
DenylistedContainers == DONT_PROXY \ {"Object"}

Unproxyable(o) ==
    \/ TypeOf(o) = "primitive"
    \/ o \in DONT_PROXY
    \/ \E c \in DenylistedContainers : InstanceOf(o, c)

\* C21.  add, proxy or weakProxy of a denylisted constructor, of an instance
\* of a denylisted container or buffer type, or of a primitive fails with a
\* TypeError and returns no proxy.
UnproxyableFails ==
    (last.op \in Creating /\ Unproxyable(last.target))
        => (last.outcome = "TypeError" /\ last.result = NoId)

\* the functions that createProxy wraps as plain functions, not constructors
PlainFunctions == Functions \ Capitalized

\* C30.  add, proxy and weakProxy are idempotent by identity for a function
\* target that is not a constructor: on an active membrane, after one of them
\* returned a wrapper for f, an immediately following getProxy(f), add(f),
\* proxy(f) or weakProxy(f) answers that same wrapper.
FunctionIdentity ==
    [][ ( /\ last.op \in Creating /\ last.target \in PlainFunctions
          /\ last.outcome = "ok" /\ ~terminated'
          /\ last'.op \in Creating \cup {"getProxy"} /\ last'.target = last.target )
        => last'.result = last.result ]_vars

\* C22.  Fault isolation of callbacks: an error thrown by guest code during
\* a callback that the host initiated ends on the runspace's 'error'
\* channel and is never rethrown into the host call stack that invoked the
\* callback.
FaultIsolated ==
    (last.op = "fire" /\ last.guest) => last.outcome \in {"ok", "ErrorEvent"}

\* the listeners of s that owner sb attached
OwnOf(s, sb) == LET Mine(x) == x.by = sb IN SelectSeq(s, Mine)

\* the listeners of s that others than sb attached
OthersOf(s, sb) == LET Theirs(x) == x.by # sb IN SelectSeq(s, Theirs)

\* C27.  Sandbox-scoped listener removal: removeAllListeners([event]) called
\* by sandbox code on the shared emitter removes only listeners the calling
\* sandbox attached (none of another event when an event is given) and leaves
\* every listener of the host and of the other sandbox attached, in order.
RemovalScoped ==
    [][ \A sb \in Sandboxes, e \in Events \cup {NULL} :
          ( /\ answer'.tick # answer.tick /\ answer'.op = "removeAllListeners"
            /\ answer'.by = sb /\ answer'.event = e )
          => \A i \in Events :
                /\ OthersOf(bound'[i], sb) = OthersOf(bound[i], sb)
                /\ (e # NULL /\ e # i) => bound'[i] = bound[i] ]_vars

\* what listeners(e) has to answer to sandbox sb
OwnFunctions(sb, e) ==
    [k \in DOMAIN OwnOf(bound[e], sb) |-> Fn("guest", OwnOf(bound[e], sb)[k].cb)]

\* C28.  listeners([event]) called by sandbox code answers exactly the
\* functions that sandbox added for the event and that are still attached,
\* in order, and listenerCount answers their number.
ListenersScoped ==
    [][ \A sb \in Sandboxes, e \in Events :
          ( /\ answer'.tick # answer.tick /\ answer'.by = sb /\ answer'.event = e )
          => /\ answer'.op = "listeners" => answer'.value = OwnFunctions(sb, e)
             /\ answer'.op = "listenerCount" => answer'.count = Len(OwnOf(bound[e], sb)) ]_vars
\* C29.  On the first terminate(), every listener sandbox code registered
\* with process.on('exit') and still attached is invoked once.
ExitOnTerminate ==
    [][ (~terminated /\ terminated')
        => \A i \in DOMAIN exits : runs'[exits[i].fn] = runs[exits[i].fn] + 1 ]_vars

\* C26.  A call of an fs function with a path argument that lies outside the
\* scope root (the parent directories of the root included) raises EACCES
\* and never reaches the host function, for every path argument the
\* function takes.
FsScoped ==
    fsCall.decided
    => \A k \in FsPathArgs(fsCall.method) :
          ~Below(Scope, IF k = 1 THEN fsCall.to1 ELSE fsCall.to2)
          => fsCall.outcome = "EACCES"

\* C23.  Scoped module resolution: a require issued by sandbox A, whose
\* scope root is /a/R and which has no load paths, from the directory /a/R
\* never answers a module file outside /a/R, whatever the specifier and
\* whatever the other sandbox resolved before.
RequireScoped ==
    (required.by = "A" /\ required.outcome = "ok") => Below(Scope, required.file)

\* what require(id) of sandbox sb answers when no other sandbox has resolved
\* anything: the lookup paths are those of sb
ResolvesAlone(sb, id) == ResolveFilename(sb, RequireDir, LookupFor(sb, RequireDir), id)

\* C24.  Independent sandboxes: what a require of one sandbox resolves to
\* does not depend on what the other sandbox did before, and a module file
\* loaded by both sandboxes has a distinct instance in each.
SandboxesIndependent ==
    /\ (required.by \in Sandboxes /\ required.outcome \in {"ok", "MODULE_NOT_FOUND"})
       => /\ (required.outcome = "ok") = ResolvesAlone(required.by, required.id).found
          /\ required.file = ResolvesAlone(required.by, required.id).file
    /\ \A f \in Files : moduleCache["A"][f] # 0 => moduleCache["A"][f] # moduleCache["B"][f]

\* C25.  Built-in modules are proxied and deniable: require of a built-in
\* module on an active membrane answers the proxy registered for the module
\* in the strong map, the same one as the require of that module just
\* before, and require of a module on the deny list raises EACCES and
\* answers nothing.
BuiltInProxied ==
    [][ (last'.op = "require" /\ required'.count # required.count /\ ~terminated)
        => IF last'.name \in LoaderDeny
           THEN last'.outcome = "EACCES" /\ last'.result = NoId
           ELSE /\ last'.outcome = "ok"
                /\ last'.result # NoId
                /\ last'.result = permMap'[last'.target]
                /\ (last.op = "require" /\ last.name = last'.name /\ last.outcome = "ok")
                      => last'.result = last.result ]_vars

\* C32.  A write through a proxy to a writable slot whose host value is a
\* function is denied: on every step of a write of member n through a proxy
\* whose target's slot n holds a function, the write ends with AccessDenied
\* and the slot holds the same function afterwards.
FunctionSlotsDenied ==
    [][ \A p \in DOMAIN px, n \in SlotNames :
          ( /\ last'.op = "set" /\ last'.id = p /\ last'.name = n
            /\ << last', slots', px' >> # << last, slots, px >>
            /\ TypeOf(LiveVal(px[p].target, n)) = "function" )
          => /\ last'.outcome = "AccessDenied"
             /\ LiveVal(px[p].target, n)' = LiveVal(px[p].target, n) ]_vars

\* the wrapper the accessor of member n on proxy q finds in its map for the
\* function f
CachedFor(q, n, f) ==
    IF Member(q, n).map = "perm" THEN permMap[f] ELSE tempMaps[Member(q, n).gen][f]

NodeProxies == {c \in DOMAIN px : c[1] = "Node"}

FailureLeavesNoEntry ==
    (last.op \in Creating /\ last.outcome # "ok" /\ last.target \in Hosts)
    => permMap[last.target] = NoId /\ tempMaps[Len(tempMaps)][last.target] = NoId

\* C31.  Instances are weakly registered: every object proxy made during a
\* guest operation (an instance created by new on a constructor proxy, a
\* host object wrapped on the way out because its constructor has a
\* constructor proxy) is registered in the weak map and not in the strong
\* one, and an object that is registered already is answered by its
\* registered proxy.
InstancesWeak ==
    [][ last'.op \in {"get", "call", "new", "fire"}
        => /\ \A id \in DOMAIN px' \ DOMAIN px :
                 px'[id].kind = "object"
                 => /\ permMap'[px'[id].target] = NoId
                    /\ tempMaps'[Len(tempMaps')][px'[id].target] = id
           /\ \A r \in {last'.result} :
                 ( /\ last'.outcome = "ok"
                   /\ r \in DOMAIN px'
                   /\ px'[r].kind = "object"
                   /\ GetProxy(State, px'[r].target) # NoId )
                 => r = GetProxy(State, px'[r].target) ]_vars

\* a guest new on a strongly registered constructor proxy has just answered
\* an instance proxy, and the host object d2 has been wrapped on the way out
InstancesWeakWitness ==
    /\ last.op = "new" /\ last.outcome = "ok"
    /\ last.result \in DOMAIN px
    /\ permMap[px[last.id].target] = last.id
    /\ tempMaps[Len(tempMaps)][px[last.result].target] = last.result
    /\ tempMaps[Len(tempMaps)]["d2"] # NoId
    /\ permMap["d2"] = NoId

\* C36.  Listener tracking: every listener a sandbox attached to a strongly
\* registered host emitter and did not remove is recorded in the EventManager
\* of that sandbox, and once the runspace has terminated none of its
\* listeners is attached to the emitter.
ListenersTracked ==
    \A sb \in Sandboxes, e \in Events : \A k \in DOMAIN bound[e] :
        (strong[sb] /\ bound[e][k].by = sb)
        => /\ managers[sb].has
           /\ bound[e][k].fn \in FnsOf(managers[sb].on[e])
           /\ ~(sb = "A" /\ terminated)

ModuleCached ==
    [][ required'.count # required.count
        => \A sb \in {required'.by} :
           IF sb = "A" /\ terminated
           THEN required'.outcome = "Terminated" /\ moduleCache' = moduleCache
           ELSE /\ \A o \in Sandboxes \ {sb} : moduleCache'[o] = moduleCache[o]
                /\ (required'.file \in Files /\ moduleCache[sb][required'.file] # 0)
                      => /\ required'.outcome = "ok"
                         /\ required'.instance = moduleCache[sb][required'.file]
                /\ \A i \in DOMAIN steps' :
                      /\ steps'[i].what = "run" => moduleCache[sb][steps'[i].file] = 0
                      /\ steps'[i].what = "hit"
                            => steps'[i].instance = moduleCache[sb][steps'[i].file]
                      /\ steps'[i].what = "partial"
                            => \E j \in 1..(i - 1) :
                                  /\ steps'[j] = Step("run", steps'[i].file,
                                                       steps'[i].instance, TRUE)
                                  /\ \A m \in (j + 1)..(i - 1) :
                                        steps'[m].file # steps'[i].file ]_vars

\* x and y require each other and both are loaded; the last call was
\* answered from the cache
ModuleCachedWitness ==
    /\ bodies[FileY].has
    /\ required.outcome = "ok"
    /\ required.by \in Sandboxes
    /\ moduleCache[required.by][FileX] # 0
    /\ moduleCache[required.by][FileY] # 0
    /\ Len(steps) = 1
    /\ steps[1].what = "hit"

\* C39.  A failed load is not cached: when a body throws during a require
\* call the call fails and the cache has no entry for the file afterwards,
\* and a require of a file whose load failed before, and which is not in the
\* cache, runs the body again in a new instance.
FailedLoadNotCached ==
    [][ (required'.count # required.count /\ ~(required'.by = "A" /\ terminated))
        => \A sb \in {required'.by} :
           /\ \A i \in DOMAIN steps' :
                 steps'[i].what = "throw"
                 => /\ moduleCache'[sb][steps'[i].file] = 0
                    /\ required'.outcome = "Thrown"
                    /\ required'.instance = 0
           /\ \A f \in failed[sb] :
                 (required'.file = f /\ moduleCache[sb][f] = 0)
                 => steps'[1] = Step("run", f, made + 1, TRUE) ]_vars

\* a file whose load had failed was required again, ran again and loaded
FailedLoadWitness ==
    /\ required.outcome = "ok"
    /\ required.by \in Sandboxes
    /\ required.file \in failed[required.by]
    /\ steps # << >>
    /\ steps[1].what = "run"
    /\ steps[1].file = required.file
    /\ moduleCache[required.by][required.file] = required.instance

\* C40.  requireFS is not set while guest code executes: at no moment of a
\* require call at which a module body starts, ends or has a require of its
\* own answered is requireFS set, and it is not set between calls.
RequireFSUnset ==
    /\ ~requireFS
    /\ \A i \in DOMAIN steps : ~steps[i].fs

====
